---- MODULE Spec2Model ----
(***************************************************************************)
(* go-scp: one transfer call (upload: Client.CopyPassThru, download:       *)
(* Client.CopyFromRemotePassThru) with its spawned tasks, the joint wait   *)
(* and the context that bounds it (Spec, FairSpec); the life of a client,  *)
(* Connect, transfers one after the other, Close (ClientSpec); the Command *)
(* codec (CodecSpec); the parser of the remote's responses (ParserSpec);   *)
(* the sudo upload (SudoSpec) and the download bounded by Client.Timeout   *)
(* (TimedSpec).  Bytes are one-character strings.                          *)
(***************************************************************************)
EXTENDS Integers, Sequences, FiniteSets, TLC

\* ---------------------------------------------------------------- bounds
MaxSize == 2      \* largest declared / announced size
MaxSrc == 2       \* largest number of bytes the upload source holds
MaxCalls == 2     \* transfers called on one client
MaxCloses == 2    \* calls of Close on one client
MaxDials == 2     \* ssh.Dial attempts of one client
MaxParses == 2    \* parser calls made one after the other on one FileInfos

\* ----------------------------------------------------------------- bytes
NUL == "\\0"      \* the zero byte: Ok status, Ack, body terminator
SOH == "\\1"      \* status byte 1
STX == "\\2"      \* status byte 2
NL == "\n"
SP == " "

Ok == NUL
Warning == SOH
Error == STX
Create == "C"

Digits == <<"0", "1", "2", "3", "4", "5", "6", "7", "8", "9">>

IsDigit(c) == \E i \in 1..10 : Digits[i] = c

DigitVal(c) == (CHOOSE i \in 1..10 : Digits[i] = c) - 1

RECURSIVE Itoa(_)
\* decimal formatting of a non-negative integer (fmt's %d / Fprintln operand)
Itoa(n) == IF n < 10 THEN <<Digits[n + 1]>>
           ELSE Itoa(n \div 10) \o <<Digits[(n % 10) + 1]>>

RECURSIVE DigitsVal(_, _)
DigitsVal(s, acc) == IF s = <<>> THEN acc
                     ELSE DigitsVal(Tail(s), 10 * acc + DigitVal(Head(s)))

\* strconv.Atoi: optional sign, then one or more decimal digits
Atoi(s) ==
  LET signed == s # <<>> /\ Head(s) \in {"+", "-"}
      ds == IF signed THEN Tail(s) ELSE s
  IN IF ds = <<>> \/ \E i \in 1..Len(ds) : ~IsDigit(ds[i])
       THEN [ok |-> FALSE, val |-> 0]
       ELSE [ok |-> TRUE,
             val |-> IF signed /\ Head(s) = "-" THEN 0 - DigitsVal(ds, 0)
                     ELSE DigitsVal(ds, 0)]

\* index of the first occurrence of c in s, 0 when there is none
IndexOf(s, c) == IF \E i \in 1..Len(s) : s[i] = c
                   THEN CHOOSE i \in 1..Len(s) :
                          s[i] = c /\ \A j \in 1..(i - 1) : s[j] # c
                   ELSE 0

RECURSIVE Split(_, _)
\* strings.Split(s, sep) for a one-byte separator
Split(s, sep) ==
  LET i == IndexOf(s, sep)
  IN IF i = 0 THEN <<s>>
     ELSE <<SubSeq(s, 1, i - 1)>> \o Split(SubSeq(s, i + 1, Len(s)), sep)

\* strings.ReplaceAll(s, c, "")
Remove(s, c) == SelectSeq(s, LAMBDA x : x # c)

RECURSIVE TrimRightSlash(_)
TrimRightSlash(p) == IF p # <<>> /\ p[Len(p)] = "/"
                       THEN TrimRightSlash(SubSeq(p, 1, Len(p) - 1))
                       ELSE p

\* path.Base
PathBase(p) ==
  IF p = <<>> THEN <<".">>
  ELSE LET q == TrimRightSlash(p)
           parts == Split(q, "/")
           last == parts[Len(parts)]
       IN IF q = <<>> THEN <<"/">> ELSE last

\* --------------------------------------------------------------- errors
Err(kind, text) == [kind |-> kind, text |-> text]
Nil == Err("nil", <<>>)
Canceled == Err("context canceled", <<>>)
DeadlineExceeded == Err("context deadline exceeded", <<>>)
EOF == Err("EOF", <<>>)
WriteErr == Err("write", <<>>)
PipeErr == Err("pipe", <<>>)
StartedErr == Err("pipe", <<"s", "t", "a", "r", "t", "e", "d">>)
StartErr == Err("start", <<>>)
ExitErr == Err("exit status", <<>>)
SinkErr == Err("sink write", <<>>)
ParseErr == Err("unable to parse", <<>>)

ErrorsNew(text) == Err("message", text)

\* ------------------------------------------------------------ responses
\* bufio.Reader.ReadString('\n') on the bytes that follow the status byte
ReadString(s) ==
  LET i == IndexOf(s, NL)
  IN IF i = 0 THEN [err |-> EOF, line |-> s, rest |-> <<>>]
     ELSE [err |-> Nil, line |-> SubSeq(s, 1, i),
           rest |-> SubSeq(s, i + 1, Len(s))]

\* ParseResponse as client.go calls it: one status byte, then for a status
\* other than 0 one newline-terminated line; yields the Response
ReadResponse(stream) ==
  IF stream = <<>>
    THEN [err |-> EOF, Type |-> Ok, Message |-> <<>>, rest |-> <<>>]
    ELSE LET responseType == Head(stream)
             l == ReadString(Tail(stream))
         IN IF responseType = Ok
              THEN [err |-> Nil, Type |-> Ok, Message |-> <<>>,
                    rest |-> Tail(stream)]
              ELSE IF l.err # Nil
                     THEN [err |-> l.err, Type |-> Ok, Message |-> <<>>,
                           rest |-> l.rest]
                     ELSE [err |-> Nil, Type |-> responseType,
                           Message |-> l.line, rest |-> l.rest]

IsFailure(res) == res.Type \in {Warning, Error}

GetMessage(res) == res.Message

\* checkResponse: the error of one acknowledgment check
checkResponse(stream) ==
  LET response == ReadResponse(stream)
  IN [err |-> IF response.err # Nil THEN response.err
              ELSE IF IsFailure(response)
                     THEN ErrorsNew(GetMessage(response))
                     ELSE Nil,
      res |-> response, rest |-> response.rest]

\* the file infos of a Create message: permissions, size, filename
ParseFileInfos(message) ==
  LET processMessage == Remove(message, NL)
      parts == Split(processMessage, SP)
      size == IF Len(parts) < 3 THEN [ok |-> FALSE, val |-> 0]
              ELSE Atoi(parts[2])
  IN IF Len(parts) < 3 \/ ~size.ok
       THEN [err |-> ParseErr, Permissions |-> <<>>, Size |-> 0,
             Filename |-> <<>>]
       ELSE [err |-> Nil, Permissions |-> parts[1], Size |-> size.val,
             Filename |-> parts[3]]

NoInfos == [err |-> Nil, Permissions |-> <<>>, Size |-> 0, Filename |-> <<>>]

\* Ack: the single zero byte
AckMsg == <<NUL>>

\* ----------------------------------------------- what the remote may send
Letters == <<"a", "b", "c", "d", "e", "f", "g", "h">>

Payload(n) == [i \in 1..n |-> Letters[((i - 1) % 8) + 1]]

WarnMsg == <<"w", SP, "x", NL>>
ErrMsg == <<"n", "o", NL>>

\* the frames a receiver may answer an upload step with; <<>> is end of stream
UploadFrames ==
  { <<Ok>>, <<Warning>> \o WarnMsg, <<Error>> \o ErrMsg, <<Error, "n">>, <<>> }

CreateLine(n) == <<Create, "0", "6", "4", "4", SP>> \o Itoa(n) \o <<SP, "f", NL>>

\* the whole output of a sender: a failure frame, or a Create line with the
\* body and the closing status byte, complete or cut short
DownloadScripts ==
  { CreateLine(n) \o Payload(n) \o <<Ok>> : n \in 0..MaxSize }
    \cup { CreateLine(n) \o Payload(n - 1) : n \in 1..MaxSize }
    \cup { <<Warning>> \o WarnMsg, <<Error>> \o ErrMsg, <<Error, "n">>, <<>>,
           <<Ok>>, <<Create, "0", "6", "4", "4", NL>>,
           <<Create, "0", "6", "4", "4", SP, "x", SP, "f", NL>> }

\* ---------------------------------------------------------------- state
VARIABLES
  mode,         \* "upload" (CopyPassThru) or "download" (CopyFromRemotePassThru)
  Timeout,      \* Client.Timeout
  callerCtx,    \* the caller's context: background, canceled, expired,
                \* cancelable, deadline (a deadline that passes during the call)
  permissions,  \* upload argument
  remotePath,   \* upload argument
  size,         \* upload argument: the declared size
  src,          \* upload argument: the bytes the source reader holds
  ctxErr,       \* Err() of the context the joint wait selects on
  timer,        \* the WithTimeout timer: none, armed, fired, stopped
  mpc,          \* position of the calling goroutine
  result,       \* the error the call returned
  wpc,          \* the goroutine of wait: none, waiting, closed (c is closed)
  wg,           \* the WaitGroup counter
  errCh,        \* the buffered error channel
  chClosed,     \* errCh has been closed
  sent,         \* every error sent on errCh, in order
  tpc,          \* position of the data-plane (upload) or download goroutine
  cpc,          \* position of the control-plane goroutine (upload)
  terr,         \* the download goroutine's err variable
  srcPos,       \* bytes of src consumed by io.Copy
  stdout,       \* bytes the remote has emitted and the client has not read
  win,          \* bytes written to the remote's stdin
  wCloses,      \* Close calls on the stdin pipe
  sink,         \* bytes written to the download's writer
  infos,        \* the parsed file infos (download)
  acks,         \* the responses read, in order
  exitErr,      \* what Session.Run / Session.Wait returned, once it has
  log,          \* the protocol steps taken, in order, each with its outcome
  hist,         \* what the joint wait saw: see the fields in Init
  Session,      \* Client.Session and the state of that ssh.Session
  Conn,         \* Client.Conn and the Close calls it has received
  sshClient,    \* the *ssh.Client behind the scp client: who dialed it, is it open
  closeCalls,   \* calls of Client.Close so far
  prior,        \* the results of the transfers that returned earlier on the client
  probe,        \* what NewSession on the ssh client returned after Close
  cmd,          \* the Command a codec operation works on
  text,         \* the bytes handed to UnmarshalText
  out,          \* the last codec operation and what it returned
  reader,       \* the stream handed to ParseResponse: the chunks its Read calls
                \* will return, and how the stream ends
  writer,       \* the bytes written to the writer handed to ParseResponse
  fileInfos,    \* the FileInfos a parser call works on or returned
  pres,         \* the last parser call and what it returned
  sudoUp,       \* one call of the upload that supports a sudo password
  timedDl       \* one call of the download bounded by Client.Timeout

transferVars ==
  << mode, Timeout, callerCtx, permissions, remotePath, size, src, ctxErr,
     timer, mpc, result, wpc, wg, errCh, chClosed, sent, tpc, cpc, terr,
     srcPos, stdout, win, wCloses, sink, infos, acks, exitErr, log, hist >>

clientRest == << Conn, sshClient, closeCalls, prior, probe >>

clientVars == << Session, clientRest >>

codecVars == << cmd, text, out >>

parserVars == << reader, writer, fileInfos, pres >>

variantVars == << sudoUp, timedDl >>

pureVars == << codecVars, parserVars, variantVars >>

notTransfer == << clientVars, pureVars >>

vars == << transferVars, clientVars, codecVars, parserVars, variantVars >>

args == << mode, Timeout, callerCtx, permissions, remotePath, size, src >>

Modes == {"upload", "download"}
Timeouts == {0, 1}
CallerCtxs == {"background", "canceled", "expired", "cancelable", "deadline"}
Perms == { <<"0", "6", "4", "4">> }

\* permission strings above 0777 or not octal: the argument is any string
BadPerms == { <<"1", "7", "7", "7">>, <<"0", "7", "x">> }
Paths == { <<"/", "d", "/", "t">> }

\* ctx.Err() of the caller's context once it is done
CallerErr(kind) ==
  IF kind \in {"expired", "deadline"} THEN DeadlineExceeded ELSE Canceled

Pending == Err("pending", <<>>)

\* ------------------------------------------------- the client's two handles
\* Client.Session: nil, or an ssh.Session; started is set by Run and Start
NoSession == [set |-> FALSE, started |-> FALSE, closes |-> 0]

\* what client.NewSession() returns
FreshSession == [set |-> TRUE, started |-> FALSE, closes |-> 0]

\* Client.Conn: nil, or the connection of the dialed ssh client
NoConn == [set |-> FALSE, closes |-> 0]

DialedConn == [set |-> TRUE, closes |-> 0]

NoSSHClient == [origin |-> "none", open |-> FALSE, dials |-> 0]

\* what ssh.Dial returns to Connect
DialedSSHClient == [origin |-> "library", open |-> TRUE, dials |-> 1]

\* the client after NewClient and a successful Connect, no transfer made yet
ClientConnected ==
  /\ Session = FreshSession
  /\ Conn = DialedConn
  /\ sshClient = DialedSSHClient
  /\ closeCalls = 0
  /\ prior = <<>>
  /\ probe = "none"

\* the zero Command
NoCommand == [Permissions |-> 0, Size |-> 0, Filename |-> <<>>]

NoOut == [op |-> "none", prev |-> "none", err |-> Nil, text |-> <<>>,
          cmd |-> NoCommand]

CodecIdle ==
  /\ cmd = NoCommand
  /\ text = <<>>
  /\ out = NoOut

\* NewFileInfos(): &FileInfos{}
NewFileInfos ==
  [Message |-> <<>>, Filename |-> <<>>, Permissions |-> <<>>, Size |-> 0,
   Atime |-> 0, Mtime |-> 0]

\* a *FileInfos: nil, or the address of a FileInfos
NilFileInfos == [nil |-> TRUE, v |-> NewFileInfos]

Ref(v) == [nil |-> FALSE, v |-> v]

\* a stream that holds nothing and is at its end
NoReader == [chunks |-> <<>>, end |-> "eof"]

\* a writer nothing was written to
NoWriter == [data |-> <<>>, broken |-> FALSE]

NoParse ==
  [op |-> "none", prev |-> "none", n |-> 0, err |-> Nil, isNil |-> FALSE,
   blocked |-> FALSE, in |-> <<>>, new |-> NilFileInfos,
   before |-> NewFileInfos, stream |-> <<>>, lost |-> <<>>]

\* the upload with a sudo password, not yet called: pw tells whether
\* a.SudoPassword is configured
SudoUpCall(pw) ==
  [mpc |-> "idle", pw |-> pw, spc |-> "none", sudoCh |-> <<>>,
   sudoClosed |-> FALSE, wrote |-> "none", tpc |-> "idle", cpc |-> "idle",
   wg |-> 0, errCh |-> <<>>, sent |-> <<>>, chClosed |-> FALSE,
   stdout |-> <<>>, w |-> <<>>, deferred |-> FALSE, wCloses |-> 0,
   result |-> Pending]

NoSudoUp == SudoUpCall(FALSE)

\* the download bounded by a.Timeout, not yet called
TimedDlCall(timeout, passThru) ==
  [mpc |-> "idle", Timeout |-> timeout, passThru |-> passThru,
   wrapped |-> FALSE, tpc |-> "idle", err |-> Nil, errCh |-> <<>>,
   sent |-> <<>>, chClosed |-> FALSE, wg |-> 0, c |-> "open",
   result |-> Pending]

NoTimedDl == TimedDlCall(0, FALSE)

VariantIdle == sudoUp = NoSudoUp /\ timedDl = NoTimedDl

ParserIdle ==
  /\ VariantIdle
  /\ reader = NoReader
  /\ writer = NoWriter
  /\ fileInfos = NewFileInfos
  /\ pres = NoParse

Init ==
  /\ ClientConnected
  /\ CodecIdle
  /\ ParserIdle
  /\ mode \in Modes
  /\ Timeout \in Timeouts
  /\ callerCtx \in CallerCtxs
  /\ permissions \in Perms
  /\ remotePath \in Paths
  /\ size \in IF mode = "upload" THEN 0..MaxSize ELSE {0}
  /\ src \in IF mode = "upload" THEN {Payload(n) : n \in 0..MaxSrc} ELSE {<<>>}
  /\ ctxErr = IF callerCtx \in {"canceled", "expired"} THEN CallerErr(callerCtx)
              ELSE Nil
  /\ timer = "none"
  /\ mpc = IF mode = "upload" THEN "pipes" ELSE "spawn"
  /\ result = Pending
  /\ wpc = "none"
  /\ wg = 0
  /\ errCh = <<>>
  /\ chClosed = FALSE
  /\ sent = <<>>
  /\ tpc = "idle"
  /\ cpc = "idle"
  /\ terr = Nil
  /\ srcPos = 0
  /\ stdout = <<>>
  /\ win = <<>>
  /\ wCloses = 0
  /\ sink = <<>>
  /\ infos = NoInfos
  /\ acks = <<>>
  /\ exitErr = Pending
  /\ log = <<>>
  /\ hist = [ wait |-> "pending",      \* how wait returned: "nil" or "ctx"
              timedOut |-> FALSE,      \* the timeout elapsed with tasks unfinished
              joinedLive |-> FALSE ]   \* the last task finished with ctx not done

\* ------------------------------------------------------- the error channel
ErrChCap_one == IF mode = "upload" THEN 1 ELSE 1

\* make(chan error, 2) in CopyPassThru, make(chan error, 4) in the download
ErrChCap == IF mode = "upload" THEN 2 ELSE 4

Send(e) ==
  /\ Len(errCh) < ErrChCap
  /\ errCh' = Append(errCh, e)
  /\ sent' = Append(sent, e)

Report(e) == IF e = Nil THEN UNCHANGED <<errCh, sent>> ELSE Send(e)

Step(op, e) == [op |-> op, ok |-> (e = Nil)]

\* wg.Done(): hist.joinedLive records whether the last task ends with ctx live
Done ==
  /\ wg' = wg - 1
  /\ hist' = IF wg = 1 THEN [hist EXCEPT !.joinedLive = (ctxErr = Nil)] ELSE hist

\* ------------------------------------------------------------ the context
Wake_asleep(which) == mpc

\* a goroutine parked in select is resumed by the first channel that is ready
Wake(which) == IF mpc = "parked" THEN which ELSE mpc

\* the caller cancels its context while the call runs
CallerCancel ==
  /\ callerCtx = "cancelable"
  /\ ctxErr = Nil
  /\ mpc # "returned"
  /\ ctxErr' = Canceled
  /\ mpc' = Wake("got_ctx")
  /\ UNCHANGED << args, timer, result, wpc, wg, errCh, chClosed, sent, tpc, cpc,
                  terr, srcPos, stdout, win, wCloses, sink, infos, acks, exitErr,
                  log, hist >>
  /\ UNCHANGED notTransfer

\* the deadline of the caller's context passes while the call runs
CallerDeadline ==
  /\ callerCtx = "deadline"
  /\ ctxErr = Nil
  /\ mpc # "returned"
  /\ ctxErr' = CallerErr(callerCtx)
  /\ mpc' = Wake("got_ctx")
  /\ UNCHANGED << args, timer, result, wpc, wg, errCh, chClosed, sent, tpc, cpc,
                  terr, srcPos, stdout, win, wCloses, sink, infos, acks, exitErr,
                  log, hist >>
  /\ UNCHANGED notTransfer

\* the timer of context.WithTimeout(ctx, a.Timeout) fires
TimerFire ==
  /\ timer = "armed"
  /\ ctxErr = Nil
  /\ timer' = "fired"
  /\ ctxErr' = DeadlineExceeded
  /\ mpc' = Wake("got_ctx")
  /\ hist' = [hist EXCEPT !.timedOut = (wg > 0)]
  /\ UNCHANGED << args, result, wpc, wg, errCh, chClosed, sent, tpc, cpc, terr,
                  srcPos, stdout, win, wCloses, sink, infos, acks, exitErr, log >>
  /\ UNCHANGED notTransfer

\* ------------------------------------------------------- the ssh session
\* a.Session.StdoutPipe(): ssh.Session refuses a pipe once the process has
\* been started on it (Run, Start); on a session not yet started the pipe can
\* still fail
StdoutPipe(s) == IF s.started THEN {StartedErr} ELSE {Nil, PipeErr}

\* a.Session.Run(...), a.Session.Start(...): the session is started from now
Started(s) == [s EXCEPT !.started = TRUE]

\* -------------------------------------------------- the calling goroutine
\* CopyPassThru: a.Session.StdoutPipe(), a.Session.StdinPipe(); an error is
\* returned at once, before anything is spawned
MainPipes ==
  /\ mpc = "pipes"
  /\ \E e \in StdoutPipe(Session) :
       IF e = Nil
         THEN /\ mpc' = "spawn"
              /\ UNCHANGED result
         ELSE /\ mpc' = "returned"
              /\ result' = e
  /\ UNCHANGED << args, ctxErr, timer, wpc, wg, errCh, chClosed, sent, tpc, cpc,
                  terr, srcPos, stdout, win, wCloses, sink, infos, acks, exitErr,
                  log, hist >>
  /\ UNCHANGED notTransfer

\* wg.Add, make(chan error, n), the go statements, context.WithTimeout
MainSpawn ==
  /\ mpc = "spawn"
  /\ wg' = IF mode = "upload" THEN 2 ELSE 1
  /\ tpc' = IF mode = "upload" THEN "header" ELSE "pipes"
  /\ cpc' = IF mode = "upload" THEN "run" ELSE cpc
  /\ timer' = IF Timeout > 0 THEN "armed" ELSE "none"
  /\ mpc' = "wait"
  /\ UNCHANGED << args, ctxErr, result, wpc, errCh, chClosed, sent, terr, srcPos,
                  stdout, win, wCloses, sink, infos, acks, exitErr, log, hist >>
  /\ UNCHANGED notTransfer

\* wait: c := make(chan struct{}); go func() { defer close(c); wg.Wait() }()
MainWait ==
  /\ mpc = "wait"
  /\ wpc' = "waiting"
  /\ mpc' = "select"
  /\ UNCHANGED << args, ctxErr, timer, result, wg, errCh, chClosed, sent, tpc, cpc,
                  terr, srcPos, stdout, win, wCloses, sink, infos, acks, exitErr,
                  log, hist >>
  /\ UNCHANGED notTransfer

WaiterClose_early ==
  /\ wpc = "waiting"
  /\ wpc' = "closed"
  /\ mpc' = Wake("got_c")
  /\ UNCHANGED << args, ctxErr, timer, result, wg, errCh, chClosed, sent, tpc, cpc,
                  terr, srcPos, stdout, win, wCloses, sink, infos, acks, exitErr,
                  log, hist >>
  /\ UNCHANGED notTransfer

\* the goroutine of wait: wg.Wait() returns at counter 0, then close(c)
WaiterClose ==
  /\ wpc = "waiting"
  /\ wg = 0
  /\ wpc' = "closed"
  /\ mpc' = Wake("got_c")
  /\ UNCHANGED << args, ctxErr, timer, result, wg, errCh, chClosed, sent, tpc, cpc,
                  terr, srcPos, stdout, win, wCloses, sink, infos, acks, exitErr,
                  log, hist >>
  /\ UNCHANGED notTransfer

\* select { case <-c: ... case <-ctx.Done(): ... }: one of the ready cases,
\* any of them when both are ready; parks when none is
SelectCases(cReady, ctxReady) ==
  IF ~cReady /\ ~ctxReady THEN {"parked"}
  ELSE (IF cReady THEN {"got_c"} ELSE {}) \cup
       (IF ctxReady THEN {"got_ctx"} ELSE {})

MainSelect ==
  /\ mpc = "select"
  /\ mpc' \in SelectCases(wpc = "closed", ctxErr # Nil)
  /\ UNCHANGED << args, ctxErr, timer, result, wpc, wg, errCh, chClosed, sent, tpc,
                  cpc, terr, srcPos, stdout, win, wCloses, sink, infos, acks,
                  exitErr, log, hist >>
  /\ UNCHANGED notTransfer

\* the deferred calls of the calling goroutine: cancel() and, in CopyPassThru,
\* w.Close()
MainDefers ==
  /\ timer' = IF timer = "armed" THEN "stopped" ELSE timer
  /\ wCloses' = IF mode = "upload" THEN wCloses + 1 ELSE wCloses

\* case <-ctx.Done(): return ctx.Err()
MainReturnCtx ==
  /\ mpc = "got_ctx"
  /\ result' = ctxErr
  /\ mpc' = "returned"
  /\ hist' = [hist EXCEPT !.wait = "ctx"]
  /\ MainDefers
  /\ UNCHANGED << args, ctxErr, wpc, wg, errCh, chClosed, sent, tpc, cpc, terr,
                  srcPos, stdout, win, sink, infos, acks, exitErr, log >>
  /\ UNCHANGED notTransfer

RECURSIVE FirstError_last(_)
FirstError_last(ch) ==
  IF ch = <<>> THEN Nil
  ELSE IF FirstError_last(Tail(ch)) # Nil THEN FirstError_last(Tail(ch))
  ELSE Head(ch)

RECURSIVE FirstError(_)
\* close(errCh); for err := range errCh { if err != nil { return err } }
FirstError(ch) ==
  IF ch = <<>> THEN Nil
  ELSE IF Head(ch) # Nil THEN Head(ch)
  ELSE FirstError(Tail(ch))

RECURSIVE AfterFirstError(_)
\* what the range loop leaves in the channel when it returns
AfterFirstError(ch) ==
  IF ch = <<>> THEN <<>>
  ELSE IF Head(ch) # Nil THEN Tail(ch)
  ELSE AfterFirstError(Tail(ch))

FinalErr_last(ch) == ch[Len(ch)]

\* finalErr := <-errCh
FinalErr(ch) == Head(ch)

\* case <-c: wait returns nil and the call collects the result from errCh
MainCollect ==
  /\ mpc = "got_c"
  /\ IF mode = "upload"
       THEN /\ result' = FirstError(errCh)
            /\ errCh' = AfterFirstError(errCh)
       ELSE /\ errCh # <<>>
            /\ result' = FinalErr(errCh)
            /\ errCh' = Tail(errCh)
  /\ chClosed' = TRUE
  /\ mpc' = "returned"
  /\ hist' = [hist EXCEPT !.wait = "nil"]
  /\ MainDefers
  /\ UNCHANGED << args, ctxErr, wpc, wg, sent, tpc, cpc, terr, srcPos, stdout, win,
                  sink, infos, acks, exitErr, log >>
  /\ UNCHANGED notTransfer

\* ------------------------------------------------- upload: data-plane task
\* fmt.Fprintln(w, "C"+permissions, size, filename), filename the base name
HeaderLine_fullPath ==
  <<Create>> \o permissions \o <<SP>> \o Itoa(size) \o <<SP>> \o remotePath
    \o <<NL>>

\* fmt.Sprintf("%s -qt %q", a.RemoteBinary, remotePath), the binary being scp
\* and the path free of characters that %q escapes
RunCommand ==
  <<"s", "c", "p", SP, "-", "q", "t", SP, "\"">> \o remotePath \o <<"\"">>

HeaderLine ==
  <<Create>> \o permissions \o <<SP>> \o Itoa(size) \o <<SP>>
    \o PathBase(remotePath) \o <<NL>>

DataPlaneNext_leak(pc, e) ==
  IF e # Nil THEN "done"
  ELSE CASE pc = "header" -> "ack1"
         [] pc = "ack1" -> "body"
         [] pc = "body" -> "term"
         [] pc = "term" -> "ack2"
         [] OTHER -> "exit"

DataPlaneNext_bodyFirst(pc, e) ==
  IF e # Nil THEN "exit"
  ELSE CASE pc = "header" -> "body"
         [] pc = "body" -> "ack1"
         [] pc = "ack1" -> "term"
         [] pc = "term" -> "ack2"
         [] OTHER -> "exit"

\* the statement order of the data-plane goroutine: an error ends it
DataPlaneNext(pc, e) ==
  IF e # Nil THEN "exit"
  ELSE CASE pc = "header" -> "ack1"
         [] pc = "ack1" -> "body"
         [] pc = "body" -> "term"
         [] pc = "term" -> "ack2"
         [] OTHER -> "exit"

UpHeader ==
  /\ tpc = "header"
  /\ \E e \in {Nil, WriteErr} :
       /\ win' = IF e = Nil THEN win \o HeaderLine ELSE win
       /\ log' = Append(log, Step("header", e))
       /\ Report(e)
       /\ tpc' = DataPlaneNext("header", e)
  /\ UNCHANGED << args, ctxErr, timer, mpc, result, wpc, wg, chClosed, cpc, terr,
                  srcPos, stdout, wCloses, sink, infos, acks, exitErr, hist >>
  /\ UNCHANGED notTransfer

\* checkResponse(stdout), after the header and after the terminator
UpAck(pc) ==
  /\ tpc = pc
  /\ \E frame \in UploadFrames :
       LET r == checkResponse(stdout \o frame)
       IN /\ acks' = Append(acks, r.res)
          /\ stdout' = r.rest
          /\ log' = Append(log, Step("response", r.err))
          /\ Report(r.err)
          /\ tpc' = DataPlaneNext(pc, r.err)
  /\ UNCHANGED << args, ctxErr, timer, mpc, result, wpc, wg, chClosed, cpc, terr,
                  srcPos, win, wCloses, sink, infos, hist >>
  /\ UNCHANGED exitErr
  /\ UNCHANGED notTransfer

UpAck1 == UpAck("ack1")

UpAck2 == UpAck("ack2")

\* io.Copy(w, r) stops when the reader reports end of file
CopyEnd(pos) == pos = Len(src)

\* io.Copy(w, r): one byte of the source at a time
UpCopy ==
  /\ tpc = "body"
  /\ IF CopyEnd(srcPos)
       THEN /\ tpc' = DataPlaneNext("body", Nil)
            /\ UNCHANGED << win, srcPos, log, errCh, sent >>
       ELSE \E e \in {Nil, WriteErr} :
              /\ win' = IF e = Nil THEN Append(win, src[srcPos + 1]) ELSE win
              /\ srcPos' = srcPos + 1
              /\ log' = Append(log, Step("body", e))
              /\ Report(e)
              /\ tpc' = IF e = Nil THEN "body" ELSE DataPlaneNext("body", e)
  /\ UNCHANGED << args, ctxErr, timer, mpc, result, wpc, wg, chClosed, cpc, terr,
                  stdout, wCloses, sink, infos, acks, exitErr, hist >>
  /\ UNCHANGED notTransfer

\* fmt.Fprint(w, "\x00")
UpTerm ==
  /\ tpc = "term"
  /\ \E e \in {Nil, WriteErr} :
       /\ win' = IF e = Nil THEN win \o <<NUL>> ELSE win
       /\ log' = Append(log, Step("terminator", e))
       /\ Report(e)
       /\ tpc' = DataPlaneNext("term", e)
  /\ UNCHANGED << args, ctxErr, timer, mpc, result, wpc, wg, chClosed, cpc, terr,
                  srcPos, stdout, wCloses, sink, infos, acks, exitErr, hist >>
  /\ UNCHANGED notTransfer

\* the deferred calls of the data-plane goroutine: w.Close(), wg.Done()
UpExit ==
  /\ tpc = "exit"
  /\ wCloses' = wCloses + 1
  /\ Done
  /\ tpc' = "done"
  /\ UNCHANGED << args, ctxErr, timer, mpc, result, wpc, errCh, chClosed, sent,
                  cpc, terr, srcPos, stdout, win, sink, infos, acks, exitErr, log >>
  /\ UNCHANGED notTransfer

\* ---------------------------------------------- upload: control-plane task
RunReport_drop(e) == UNCHANGED <<errCh, sent>>

\* err := a.Session.Run(...); if err != nil { errCh <- err }
RunReport(e) == Report(e)

UpRun ==
  /\ cpc = "run"
  /\ \E e \in {Nil, ExitErr} :
       /\ exitErr' = e
       /\ RunReport(e)
  /\ Session' = Started(Session)
  /\ Done
  /\ cpc' = "done"
  /\ UNCHANGED << args, ctxErr, timer, mpc, result, wpc, chClosed, tpc, terr,
                  srcPos, stdout, win, wCloses, sink, infos, acks, log >>
  /\ UNCHANGED << clientRest, pureVars >>

\* ------------------------------------------------------- download: the task
Min(a, b) == IF a < b THEN a ELSE b

\* CopyN(w, r, n): moves the first n bytes of the stream into the sink; the
\* sink accepts `room` bytes before a write to it fails
CopyN(stream, n, room) ==
  LET have == Min(n, Len(stream))
      moved == Min(have, room)
  IN [err |-> IF moved = n THEN Nil
              ELSE IF room < have THEN SinkErr ELSE EOF,
      copied |-> SubSeq(stream, 1, moved),
      rest |-> SubSeq(stream, moved + 1, Len(stream))]

CopyLimit_toEnd(fi, stream) == Len(stream)

\* the byte count handed to CopyN: infos.Size
CopyLimit(fi, stream) == fi.Size

FailureError_trimmed(res) ==
  ErrorsNew(SubSeq(GetMessage(res), 1, Len(GetMessage(res)) - 1))

\* errors.New(res.GetMessage())
FailureError(res) == ErrorsNew(GetMessage(res))

DownloadNext_ackLate(pc, e) ==
  IF e # Nil THEN "deferred"
  ELSE CASE pc = "pipes" -> "start"
         [] pc = "start" -> "ready"
         [] pc = "ready" -> "parse"
         [] pc = "parse" -> "copy"
         [] pc = "copy" -> "request"
         [] pc = "request" -> "final"
         [] pc = "final" -> "await"
         [] OTHER -> "deferred"

\* the statement order of the download goroutine: an error ends it
DownloadNext(pc, e) ==
  IF e # Nil THEN "deferred"
  ELSE CASE pc = "pipes" -> "start"
         [] pc = "start" -> "ready"
         [] pc = "ready" -> "parse"
         [] pc = "parse" -> "request"
         [] pc = "request" -> "copy"
         [] pc = "copy" -> "final"
         [] pc = "final" -> "await"
         [] OTHER -> "deferred"

\* a.Session.StdoutPipe(), a.Session.StdinPipe(); defer in.Close()
DlPipes ==
  /\ mode = "download"
  /\ tpc = "pipes"
  /\ \E e \in StdoutPipe(Session) :
       /\ terr' = e
       /\ Report(e)
       /\ tpc' = DownloadNext("pipes", e)
  /\ UNCHANGED << args, ctxErr, timer, mpc, result, wpc, wg, chClosed, cpc, srcPos,
                  stdout, win, wCloses, sink, infos, acks, exitErr, log, hist >>
  /\ UNCHANGED notTransfer

\* a.Session.Start(...): from here on the remote sender produces its output
DlStart ==
  /\ tpc = "start"
  /\ \E e \in {Nil, StartErr} :
       /\ terr' = e
       /\ stdout' \in IF e = Nil THEN DownloadScripts ELSE {stdout}
       /\ log' = Append(log, Step("start", e))
       /\ Session' = IF e = Nil THEN Started(Session) ELSE Session
       /\ Report(e)
       /\ tpc' = DownloadNext("start", e)
  /\ UNCHANGED << args, ctxErr, timer, mpc, result, wpc, wg, chClosed, cpc, srcPos,
                  win, wCloses, sink, infos, acks, exitErr, hist >>
  /\ UNCHANGED << clientRest, pureVars >>

\* err = Ack(in): the ready Ack, the Ack that requests the body, the final Ack
DlAck(pc) ==
  /\ tpc = pc
  /\ \E e \in {Nil, WriteErr} :
       /\ terr' = e
       /\ win' = IF e = Nil THEN win \o AckMsg ELSE win
       /\ log' = Append(log, Step("ack", e))
       /\ Report(e)
       /\ tpc' = DownloadNext(pc, e)
  /\ UNCHANGED << args, ctxErr, timer, mpc, result, wpc, wg, chClosed, cpc, srcPos,
                  stdout, wCloses, sink, infos, acks, exitErr, hist >>
  /\ UNCHANGED notTransfer

DlAckReady == DlAck("ready")

DlAckRequest == DlAck("request")

DlAckFinal == DlAck("final")

\* res, err := ParseResponse(r); res.IsFailure(); infos, err := res.ParseFileInfos()
DlParse ==
  /\ tpc = "parse"
  /\ LET res == ReadResponse(stdout)
         fi == ParseFileInfos(GetMessage(res))
         e == IF res.err # Nil THEN res.err
              ELSE IF IsFailure(res) THEN FailureError(res)
              ELSE fi.err
     IN /\ acks' = Append(acks, res)
        /\ stdout' = res.rest
        /\ terr' = IF res.err = Nil /\ IsFailure(res) THEN Nil ELSE e
        /\ infos' = IF e = Nil THEN fi ELSE infos
        /\ log' = Append(log, Step("header", e))
        /\ Report(e)
        /\ tpc' = DownloadNext("parse", e)
  /\ UNCHANGED << args, ctxErr, timer, mpc, result, wpc, wg, chClosed, cpc, srcPos,
                  win, wCloses, sink, exitErr, hist >>
  /\ UNCHANGED notTransfer

\* _, err = CopyN(w, r, infos.Size)
DlCopy ==
  /\ tpc = "copy"
  /\ \E room \in 0..CopyLimit(infos, stdout) :
       LET c == CopyN(stdout, CopyLimit(infos, stdout), room)
       IN /\ sink' = sink \o c.copied
          /\ stdout' = c.rest
          /\ terr' = c.err
          /\ log' = Append(log, Step("body", c.err))
          /\ Report(c.err)
          /\ tpc' = DownloadNext("copy", c.err)
  /\ UNCHANGED << args, ctxErr, timer, mpc, result, wpc, wg, chClosed, cpc, srcPos,
                  win, wCloses, infos, acks, exitErr, hist >>
  /\ UNCHANGED notTransfer

\* err = a.Session.Wait()
DlWait ==
  /\ tpc = "await"
  /\ \E e \in {Nil, ExitErr} :
       /\ exitErr' = e
       /\ terr' = e
       /\ log' = Append(log, Step("wait", e))
       /\ Report(e)
       /\ tpc' = DownloadNext("await", e)
  /\ UNCHANGED << args, ctxErr, timer, mpc, result, wpc, wg, chClosed, cpc, srcPos,
                  stdout, win, wCloses, sink, infos, acks, hist >>
  /\ UNCHANGED notTransfer

\* the deferred calls of the download goroutine: in.Close() once the pipe
\* exists (every path past the pipes has logged a step), then errCh <- err
\* and wg.Done()
DlDeferred ==
  /\ tpc = "deferred"
  /\ wCloses' = IF log # <<>> THEN wCloses + 1 ELSE wCloses
  /\ Send(terr)
  /\ Done
  /\ tpc' = "done"
  /\ UNCHANGED << args, ctxErr, timer, mpc, result, wpc, chClosed, cpc, terr,
                  srcPos, stdout, win, sink, infos, acks, exitErr, log >>
  /\ UNCHANGED notTransfer

\* ------------------------------------------------------------------ spec
Next ==
  \/ CallerCancel
  \/ CallerDeadline
  \/ TimerFire
  \/ MainPipes
  \/ MainSpawn
  \/ MainWait
  \/ WaiterClose
  \/ MainSelect
  \/ MainReturnCtx
  \/ MainCollect
  \/ UpHeader
  \/ UpAck1
  \/ UpAck2
  \/ UpCopy
  \/ UpTerm
  \/ UpExit
  \/ UpRun
  \/ DlPipes
  \/ DlStart
  \/ DlAckReady
  \/ DlAckRequest
  \/ DlAckFinal
  \/ DlParse
  \/ DlCopy
  \/ DlWait
  \/ DlDeferred

Spec == Init /\ [][Next]_vars

\* the steps of the calling goroutine
MainNext ==
  \/ MainPipes
  \/ MainSpawn
  \/ MainWait
  \/ MainSelect
  \/ MainReturnCtx
  \/ MainCollect

\* the scheduler runs the calling goroutine and the goroutine of wait, and the
\* runtime's timers fire; nothing makes a task blocked in stream I/O go on
FairSpec ==
  /\ Init
  /\ [][Next]_vars
  /\ WF_vars(MainNext)
  /\ WF_vars(WaiterClose)
  /\ WF_vars(TimerFire)
  /\ WF_vars(CallerDeadline)

\* what the joint wait has seen when no call has reached it
NoHist == [wait |-> "pending", timedOut |-> FALSE, joinedLive |-> FALSE]

\* no transfer has been called
TransferIdle ==
  /\ mode = "upload"
  /\ Timeout = 0
  /\ callerCtx = "background"
  /\ permissions \in Perms
  /\ remotePath \in Paths
  /\ size = 0
  /\ src = <<>>
  /\ ctxErr = Nil
  /\ timer = "none"
  /\ mpc = "idle"
  /\ result = Pending
  /\ wpc = "none"
  /\ wg = 0
  /\ errCh = <<>>
  /\ chClosed = FALSE
  /\ sent = <<>>
  /\ tpc = "idle"
  /\ cpc = "idle"
  /\ terr = Nil
  /\ srcPos = 0
  /\ stdout = <<>>
  /\ win = <<>>
  /\ wCloses = 0
  /\ sink = <<>>
  /\ infos = NoInfos
  /\ acks = <<>>
  /\ exitErr = Pending
  /\ log = <<>>
  /\ hist = NoHist

\* ===================================================== the Command codec
\* os.ModePerm
ModePerm == 511

RECURSIVE FormatInt(_, _)
\* strconv.FormatInt(n, base), fmt's %o and %d, for a non-negative n
FormatInt(n, base) ==
  IF n < base THEN <<Digits[n + 1]>>
  ELSE FormatInt(n \div base, base) \o <<Digits[(n % base) + 1]>>

RECURSIVE BaseVal(_, _, _)
BaseVal(s, base, acc) ==
  IF s = <<>> THEN acc
  ELSE BaseVal(Tail(s), base, base * acc + DigitVal(Head(s)))

\* strconv.ParseInt(s, base, 64) for base <= 10: an optional sign, then one or
\* more digits below the base
ParseInt(s, base) ==
  LET signed == s # <<>> /\ Head(s) \in {"+", "-"}
      ds == IF signed THEN Tail(s) ELSE s
  IN IF ds = <<>>
          \/ \E i \in 1..Len(ds) : ~IsDigit(ds[i]) \/ DigitVal(ds[i]) >= base
       THEN [ok |-> FALSE, val |-> 0]
       ELSE [ok |-> TRUE,
             val |-> IF signed /\ Head(s) = "-" THEN 0 - BaseVal(ds, base, 0)
                     ELSE BaseVal(ds, base, 0)]

RECURSIVE TrimLeft(_, _)
TrimLeft(s, cutset) ==
  IF s # <<>> /\ Head(s) \in cutset THEN TrimLeft(Tail(s), cutset) ELSE s

RECURSIVE TrimRight(_, _)
TrimRight(s, cutset) ==
  IF s # <<>> /\ s[Len(s)] \in cutset
    THEN TrimRight(SubSeq(s, 1, Len(s) - 1), cutset)
    ELSE s

\* strings.Trim(s, cutset): leading and trailing bytes of the cutset go
Trim(s, cutset) == TrimRight(TrimLeft(s, cutset), cutset)

\* fmt.Errorf("bad permissions %o (0%d)", c.Permissions, c.Permissions)
BadPermissions(p) ==
  Err("bad permissions",
      <<"b", "a", "d", " ", "p", "e", "r", "m", "i", "s", "s", "i", "o", "n",
        "s", " ">> \o FormatInt(p, 8) \o <<" ", "(", "0">> \o FormatInt(p, 10)
        \o <<")">>)

\* fmt.Errorf("Command '%s' is invalid", text)
InvalidCommand(t) == Err("invalid command", t)

\* the *strconv.NumError of ParseInt and of Atoi: invalid syntax
SyntaxError(fn, s) == Err(fn, s)

\* the run-time panic of a slice expression out of range
Panic == Err("panic", <<>>)

\* NewCommand(permissions, filename, size): the permissions are read as octal
NewCommand(perms, filename, sz) ==
  LET p == ParseInt(perms, 8)
  IN IF ~p.ok THEN [err |-> SyntaxError("strconv.ParseInt", perms),
                    cmd |-> NoCommand]
     ELSE [err |-> Nil,
           cmd |-> [Permissions |-> p.val, Size |-> sz, Filename |-> filename]]

MarshalText_decimal(c) ==
  [err |-> Nil,
   text |-> <<"C">> \o FormatInt(c.Permissions, 10) \o <<SP>>
              \o FormatInt(c.Size, 10) \o <<SP>> \o c.Filename]

MarshalText_masked(c) ==
  [err |-> Nil,
   text |-> <<"C", "0">> \o FormatInt(c.Permissions % (ModePerm + 1), 8)
              \o <<SP>> \o FormatInt(c.Size, 10) \o <<SP>> \o c.Filename]

\* Command.MarshalText: "C0" + octal permissions + " " + size + " " + filename
MarshalText(c) ==
  IF c.Permissions > ModePerm
    THEN [err |-> BadPermissions(c.Permissions), text |-> <<>>]
    ELSE [err |-> Nil,
          text |-> <<"C", "0">> \o FormatInt(c.Permissions, 8) \o <<SP>>
                     \o FormatInt(c.Size, 10) \o <<SP>> \o c.Filename]

UnmarshalText_lenient(c, t) ==
  LET parts == Split(Trim(t, {NL, NUL}), SP)
  IN IF Len(parts) < 3 THEN [err |-> InvalidCommand(t), cmd |-> c]
     ELSE [err |-> Nil,
           cmd |-> [Permissions |-> 0, Size |-> 0, Filename |-> parts[3]]]

\* Command.UnmarshalText: *c is assigned only when every field has parsed;
\* parts[0][1:] panics on an empty first field. os.FileMode(perms) and
\* uint64(size) are kept as the integer parsed: a negative one stands for the
\* unsigned value it wraps to
UnmarshalText(c, t) ==
  LET parts == Split(Trim(t, {NL, NUL}), SP)
  IN IF Len(parts) # 3 THEN [err |-> InvalidCommand(t), cmd |-> c]
     ELSE IF parts[1] = <<>> THEN [err |-> Panic, cmd |-> c]
     ELSE LET perms == ParseInt(Tail(parts[1]), 8)
              sz == Atoi(parts[2])
          IN IF ~perms.ok
               THEN [err |-> SyntaxError("strconv.ParseInt", Tail(parts[1])),
                     cmd |-> c]
             ELSE IF ~sz.ok
               THEN [err |-> SyntaxError("strconv.Atoi", parts[2]), cmd |-> c]
             ELSE [err |-> Nil,
                   cmd |-> [Permissions |-> perms.val, Size |-> sz.val,
                            Filename |-> parts[3]]]

\* Command.UnmarshalText of command.go: the permissions go through Atoi
DecimalUnmarshalText(c, t) ==
  LET parts == Split(Trim(t, {NL, NUL}), SP)
  IN IF Len(parts) # 3 THEN [err |-> InvalidCommand(t), cmd |-> c]
     ELSE IF parts[1] = <<>> THEN [err |-> Panic, cmd |-> c]
     ELSE LET perms == Atoi(Tail(parts[1]))
              sz == Atoi(parts[2])
          IN IF ~perms.ok
               THEN [err |-> SyntaxError("strconv.Atoi", Tail(parts[1])),
                     cmd |-> c]
             ELSE IF ~sz.ok
               THEN [err |-> SyntaxError("strconv.Atoi", parts[2]), cmd |-> c]
             ELSE [err |-> Nil,
                   cmd |-> [Permissions |-> perms.val, Size |-> sz.val,
                            Filename |-> parts[3]]]

\* ----------------------------------------------- the codec's operations
\* the Commands encoded: permissions up to 0777 and above, sizes up to 2^31 - 1
CmdPerms == {0, 7, 56, 420, 511, 512, 21312}

CmdSizes == {0, 42, 2147483647}

Filenames == { <<>>, <<"t">>, <<"a", ".", "b">>, <<"a", SP, "b">> }

Commands == [Permissions : CmdPerms, Size : CmdSizes, Filename : Filenames]

\* the permission strings handed to NewCommand
PermStrings ==
  { <<"7", "7", "7">>, <<"6", "4", "4">>, <<"7">>, <<"7", "7", "9">>,
    <<"1", "0", "0", "0">>, <<"2", "1", "3", "2", "3">>, <<>> }

\* the lines decoded: first fields, size fields, endings
PermFields ==
  { <<"C", "0", "7", "7", "7">>, <<"C", "0", "6", "4", "4">>, <<"C", "0", "7">>,
    <<"C", "2", "8", "5", "3">>, <<"C", "0", "6", "9", "4">>, <<"C", "7", "x">>,
    <<"C">>, <<>> }

SizeFields == { <<"4", "2">>, <<"0">>, <<"x">>, <<"-", "5">> }

Endings == { <<>>, <<NL>>, <<NUL>>, <<NL, NUL>> }

Lines ==
  { pre \o body \o end :
      pre \in {<<>>, <<NL>>},
      body \in { p \o <<SP>> \o z \o <<SP, "t">> :
                   p \in PermFields, z \in SizeFields }
               \cup { <<>>, <<"C", "0", "7", "7", "7", SP, "4", "2">>,
                      <<"C", "0", "7", "7", "7", SP, "4", "2", SP, "t", SP, "e">>,
                      <<"C", "0", "7", "7", "7", SP, SP, "4", "2", SP, "t">> },
      end \in Endings }

\* the Commands a line is decoded into: the zero Command and a used one
Targets == { NoCommand, [Permissions |-> 420, Size |-> 42, Filename |-> <<"t">>] }

CodecInit ==
  /\ \/ cmd \in Commands /\ text = <<>>
     \/ cmd \in Targets /\ text \in Lines
  /\ out = NoOut
  /\ ParserIdle
  /\ Session = NoSession
  /\ Conn = NoConn
  /\ sshClient = NoSSHClient
  /\ closeCalls = 0
  /\ prior = <<>>
  /\ probe = "none"
  /\ TransferIdle

Outcome(op, r, t, c) ==
  [op |-> op, prev |-> out.op, err |-> r.err, text |-> t, cmd |-> c]

\* c, err := NewCommand(perms, filename, size)
DoNewCommand ==
  /\ out.op = "none"
  /\ \E perms \in PermStrings :
       LET r == NewCommand(perms, cmd.Filename, cmd.Size)
       IN /\ cmd' = IF r.err = Nil THEN r.cmd ELSE cmd
          /\ out' = Outcome("NewCommand", r, perms, cmd)
  /\ UNCHANGED << text, transferVars, clientVars, parserVars, variantVars >>

\* ct, err := c.MarshalText(), on a Command literal or on NewCommand's result
DoMarshalText ==
  /\ out.op \in {"none", "NewCommand"}
  /\ out.err = Nil
  /\ LET r == MarshalText(cmd)
     IN out' = Outcome("MarshalText", r, r.text, cmd)
  /\ UNCHANGED << cmd, text, transferVars, clientVars, parserVars, variantVars >>

\* err := c.UnmarshalText(text)
DoUnmarshalText ==
  /\ out.op = "none"
  /\ LET r == UnmarshalText(cmd, text)
     IN /\ cmd' = r.cmd
        /\ out' = Outcome("UnmarshalText", r, text, cmd)
  /\ UNCHANGED << text, transferVars, clientVars, parserVars, variantVars >>

\* the same call on the Command of command.go
DoDecimalUnmarshalText ==
  /\ out.op = "none"
  /\ LET r == DecimalUnmarshalText(cmd, text)
     IN /\ cmd' = r.cmd
        /\ out' = Outcome("DecimalUnmarshalText", r, text, cmd)
  /\ UNCHANGED << text, transferVars, clientVars, parserVars, variantVars >>

\* the bytes MarshalText produced are decoded into a new Command
DoRoundTrip ==
  /\ out.op = "MarshalText"
  /\ out.err = Nil
  /\ LET r == UnmarshalText(NoCommand, out.text)
     IN /\ cmd' = r.cmd
        /\ out' = Outcome("RoundTrip", r, out.text, out.cmd)
  /\ UNCHANGED << text, transferVars, clientVars, parserVars, variantVars >>

CodecNext ==
  \/ DoNewCommand
  \/ DoMarshalText
  \/ DoUnmarshalText
  \/ DoDecimalUnmarshalText
  \/ DoRoundTrip

CodecSpec == CodecInit /\ [][CodecNext]_vars

\* ================================================== the response parser
\* errors.New("unable to parse Chmod protocol")
ChmodErr == Err("unable to parse Chmod protocol", <<>>)

\* errors.New("unable to parse Time protocol")
TimeErr == Err("unable to parse Time protocol", <<>>)

ATimeErr == Err("unable to parse ATime component of message", <<>>)

MTimeErr == Err("unable to parse MTime component of message", <<>>)

\* errors.New(fmt.Sprintf("Message does not follow scp protocol: %s...", message))
ProtocolErr(message) == Err("Message does not follow scp protocol", message)

AckErr == Err("ack write", <<>>)

Time == "T"

\* every byte the stream still holds, in order
RECURSIVE Flatten(_)
Flatten(chunks) == IF chunks = <<>> THEN <<>>
                   ELSE Head(chunks) \o Flatten(Tail(chunks))

\* reader.Read(buffer) with a buffer of one byte: the next byte of the
\* stream; at the end of the stream io.EOF; on an open, empty stream no return
Read1(rd) ==
  IF rd.chunks = <<>>
    THEN [err |-> IF rd.end = "eof" THEN EOF ELSE Nil,
          blocked |-> rd.end = "open", b |-> NUL, rd |-> rd]
    ELSE LET c == Head(rd.chunks)
         IN [err |-> Nil, blocked |-> FALSE, b |-> Head(c),
             rd |-> [rd EXCEPT !.chunks = IF Len(c) = 1 THEN Tail(@)
                                          ELSE <<Tail(c)>> \o Tail(@)]]

RECURSIVE BufReadString(_, _)
\* bufferedReader.ReadString('\n'): the line is cut from the buffer; while the
\* buffer holds no newline it is filled with whatever the next Read of the
\* underlying reader returns
BufReadString(buf, rd) ==
  LET i == IndexOf(buf, NL)
  IN IF i # 0
       THEN [err |-> Nil, blocked |-> FALSE, line |-> SubSeq(buf, 1, i),
             buf |-> SubSeq(buf, i + 1, Len(buf)), rd |-> rd]
     ELSE IF rd.chunks # <<>>
       THEN BufReadString(buf \o Head(rd.chunks),
                          [rd EXCEPT !.chunks = Tail(@)])
     ELSE IF rd.end = "eof"
       THEN [err |-> EOF, blocked |-> FALSE, line |-> buf, buf |-> <<>>,
             rd |-> rd]
     ELSE [err |-> Nil, blocked |-> TRUE, line |-> <<>>, buf |-> buf,
           rd |-> rd]

\* fileInfos.Update(new): the fields of new that are not the zero value
Update_overwrite(fi, new) == IF new.nil THEN fi ELSE new.v

Update(fi, new) ==
  IF new.nil THEN fi
  ELSE [Message |-> fi.Message,
        Filename |-> IF new.v.Filename # <<>> THEN new.v.Filename
                     ELSE fi.Filename,
        Permissions |-> IF new.v.Permissions # <<>> THEN new.v.Permissions
                        ELSE fi.Permissions,
        Size |-> IF new.v.Size # 0 THEN new.v.Size ELSE fi.Size,
        Atime |-> IF new.v.Atime # 0 THEN new.v.Atime ELSE fi.Atime,
        Mtime |-> IF new.v.Mtime # 0 THEN new.v.Mtime ELSE fi.Mtime]

\* the least number of fields of a Create or Time message
MinFields == 3

ParseFileInfosUpdate_eager(message, fi) ==
  LET parts == Split(Remove(message, NL), SP)
      got == Update(fi,
                    Ref([NewFileInfos EXCEPT !.Permissions = parts[1]]))
  IN IF Len(parts) < 3 THEN [err |-> ChmodErr, fileInfos |-> got]
     ELSE IF ~Atoi(parts[2]).ok
       THEN [err |-> SyntaxError("strconv.Atoi", parts[2]), fileInfos |-> got]
     ELSE [err |-> Nil,
           fileInfos |-> Update(fi,
                                Ref([NewFileInfos EXCEPT
                                       !.Filename = parts[3],
                                       !.Permissions = parts[1],
                                       !.Size = Atoi(parts[2]).val]))]

\* ParseFileInfos(message, fileInfos): the error, and fileInfos after the call
ParseFileInfosUpdate(message, fi) ==
  LET processMessage == Remove(message, NL)
      parts == Split(processMessage, SP)
  IN IF Len(parts) < MinFields
       THEN [err |-> ChmodErr, fileInfos |-> fi]
     ELSE LET sz == Atoi(parts[2])
          IN IF ~sz.ok
               THEN [err |-> SyntaxError("strconv.Atoi", parts[2]),
                     fileInfos |-> fi]
               ELSE [err |-> Nil,
                     fileInfos |-> Update(fi,
                                          Ref([NewFileInfos EXCEPT
                                                 !.Filename = parts[3],
                                                 !.Permissions = parts[1],
                                                 !.Size = sz.val]))]

\* the number of characters of a time field that are read
TimeDigits == 10

\* ParseFileTime(message, fileInfos): the error, and fileInfos after the call
ParseFileTime(message, fi) ==
  LET processMessage == Remove(message, NL)
      parts == Split(processMessage, SP)
  IN IF Len(parts) < MinFields
       THEN [err |-> TimeErr, fileInfos |-> fi]
     ELSE IF Len(parts[1]) < TimeDigits
       THEN [err |-> Panic, fileInfos |-> fi]
     ELSE LET aTime == Atoi(SubSeq(parts[1], 1, TimeDigits))
          IN IF ~aTime.ok THEN [err |-> ATimeErr, fileInfos |-> fi]
             ELSE IF Len(parts[3]) < TimeDigits
               THEN [err |-> Panic, fileInfos |-> fi]
             ELSE LET mTime == Atoi(SubSeq(parts[3], 1, TimeDigits))
                  IN IF ~mTime.ok
                       THEN [err |-> MTimeErr, fileInfos |-> fi]
                       ELSE [err |-> Nil,
                             fileInfos |->
                               Update(fi,
                                      Ref([NewFileInfos EXCEPT
                                             !.Atime = aTime.val,
                                             !.Mtime = mTime.val]))]

\* Ack(writer): one zero byte; the error, and the writer after the call
Ack(w) ==
  IF w.broken THEN [err |-> AckErr, writer |-> w]
  ELSE [err |-> Nil, writer |-> [w EXCEPT !.data = @ \o AckMsg]]

\* responseType > 0: a message follows the status byte
HasMessage_always(responseType) == TRUE

HasMessage(responseType) == responseType # NUL

IsFailureType_errorOnly(responseType) == responseType = Error

\* responseType == Warning || responseType == Error
IsFailureType(responseType) == responseType \in {Warning, Error}

\* what a call of ParseResponse hands back: the pointer (nil or not) with the
\* FileInfos it points to, the error, whether the call never returns, and
\* what the call did to the reader and the writer; lost are the bytes left
\* in the buffered reader the call drops
Return(fi, isNil, e, rd, w, buf) ==
  [fileInfos |-> fi, isNil |-> isNil, err |-> e, blocked |-> FALSE,
   reader |-> rd, writer |-> w, lost |-> buf]

Blocks(fi, rd, w, buf) ==
  [fileInfos |-> fi, isNil |-> FALSE, err |-> Nil, blocked |-> TRUE,
   reader |-> rd, writer |-> w, lost |-> buf]

\* the Create part of ParseResponse: message holds the line to parse
ParseCreate(responseType, message, fi, rd, w, buf) ==
  IF responseType = Create
    THEN LET r == ParseFileInfosUpdate(message, fi)
         IN IF r.err # Nil THEN Return(r.fileInfos, TRUE, r.err, rd, w, buf)
            ELSE Return(r.fileInfos, FALSE, Nil, rd, w, buf)
    ELSE Return(fi, FALSE, Nil, rd, w, buf)

\* the Time part of ParseResponse: the Time message, then the next line
ParseTime(message, fi, l1, w) ==
  LET t == ParseFileTime(message, fi)
      l2 == BufReadString(l1.buf, l1.rd)
  IN IF t.err # Nil
       THEN Return(t.fileInfos, TRUE, t.err, l1.rd, w, l1.buf)
     ELSE IF l2.blocked THEN Blocks(t.fileInfos, l2.rd, w, l2.buf)
     ELSE IF l2.err = EOF
       THEN LET a == Ack(w)
                \* the buffer was emptied into l2.line, which is dropped
                l3 == BufReadString(l2.buf, l2.rd)
            IN IF a.err # Nil
                 THEN Return(t.fileInfos, FALSE, a.err, l2.rd, a.writer,
                             l2.buf)
               ELSE IF l3.blocked
                 THEN Blocks(t.fileInfos, l3.rd, a.writer, l3.buf)
               ELSE IF l3.err # Nil
                 THEN Return(t.fileInfos, FALSE, l3.err, l3.rd, a.writer,
                             l3.buf)
               ELSE ParseCreate(Head(l3.line), l3.line, t.fileInfos, l3.rd,
                                a.writer, l3.buf)
     ELSE ParseCreate(Head(l2.line), l2.line, t.fileInfos, l2.rd, w, l2.buf)

\* ParseResponse(reader, writer)
ParseResponse(rd0, w) ==
  LET fi == NewFileInfos
      first == Read1(rd0)
      responseType == first.b
      l1 == BufReadString(<<>>, first.rd)
      message == l1.line
  IN IF first.blocked THEN Blocks(fi, rd0, w, <<>>)
     ELSE IF first.err # Nil THEN Return(fi, FALSE, first.err, rd0, w, <<>>)
     ELSE IF ~HasMessage(responseType)
       THEN Return(fi, FALSE, Nil, first.rd, w, <<>>)
     ELSE IF l1.blocked THEN Blocks(fi, l1.rd, w, l1.buf)
     ELSE IF l1.err # Nil THEN Return(fi, FALSE, l1.err, l1.rd, w, l1.buf)
     ELSE IF IsFailureType(responseType)
       THEN Return(fi, FALSE, ErrorsNew(message), l1.rd, w, l1.buf)
     ELSE IF responseType \notin {Create, Time}
       THEN Return(fi, FALSE, ProtocolErr(message), l1.rd, w, l1.buf)
     ELSE IF responseType = Time THEN ParseTime(message, fi, l1, w)
     ELSE ParseCreate(responseType, message, fi, l1.rd, w, l1.buf)

\* ------------------------------------------------ the parser's operations
\* "1610000000" and "1610000001"
Stamp0 == <<"1", "6", "1", "0", "0", "0", "0", "0", "0", "0">>

Stamp1 == <<"1", "6", "1", "0", "0", "0", "0", "0", "0", "1">>

\* the messages of Time lines, without the leading T
TimeMessages ==
  { Stamp0 \o <<SP, "0", SP>> \o Stamp1 \o <<SP, "0", NL>>,
    Stamp0 \o <<"9", SP, "0", SP>> \o Stamp1 \o <<"9", SP, "0", NL>>,
    Stamp0 \o <<SP, "0", NL>>,
    <<"1", "6", "1", SP, "0", SP>> \o Stamp1 \o <<SP, "0", NL>>,
    Stamp0 \o <<SP, "0", SP, "7", SP, "0", NL>>,
    <<"x">> \o Stamp0 \o <<SP, "0", SP>> \o Stamp1 \o <<SP, "0", NL>>,
    Stamp0 \o <<SP, "0", SP, "y">> \o Stamp1 \o <<SP, "0", NL>>,
    <<NL>> }

\* the messages of Create lines, without the leading C
CreateMessages ==
  { <<"0", "6", "4", "4", SP, "2", SP, "t", NL>>,
    <<"0", "6", "4", "4", SP, "2", SP, "t">>,
    <<"0", "7", "7", "7", SP, "0", SP, "u", NL>>,
    <<"0", "6", "4", "4", SP, "-", "5", SP, "t", NL>>,
    <<"0", "6", "4", "4", SP, "x", SP, "t", NL>>,
    <<"0", "6", "4", "4", SP, "2", NL>>,
    <<"0", "6", "4", "4", NL>>,
    <<"0", "6", "4", "4", SP, "2", SP, "t", SP, "e", NL>>,
    <<SP, "2", SP, "t", NL>>,
    <<NL>> }

\* what a remote may put on the stream ParseResponse reads
Streams ==
  { <<>>, <<NUL>>, <<NUL, "a", "b">>, <<NUL, NUL>>, <<NUL, SOH, "d", NL>>,
    <<SOH, "d", "f", NL>>, <<SOH, "d", "f", NL, "x">>, <<SOH, "d", "f">>,
    <<STX, "n", "o", NL>>, <<STX, NL, NUL>>, <<SOH>>,
    <<"X", "z", NL, "a">>, <<"X">> }
  \cup { <<Create>> \o m \o b : m \in CreateMessages, b \in {<<>>, <<"a", "b">>} }
  \cup { <<Time>> \o m : m \in TimeMessages }
  \cup { <<Time>> \o m \o <<Create>> \o c \o <<"a", "b">> :
           m \in TimeMessages, 
           c \in { <<"0", "6", "4", "4", SP, "2", SP, "t", NL>>,
                   <<"0", "6", "4", "4", SP, "2", NL>> } }
  \cup { <<Time>> \o Stamp0 \o <<SP, "0", SP>> \o Stamp1 \o <<SP, "0", NL>>
           \o l : l \in { <<"X", "z", NL>>, <<SOH, "d", NL>>, <<Create>> } }

RECURSIVE LineChunks(_)
\* the stream delivered one line at a time
LineChunks(s) ==
  LET i == IndexOf(s, NL)
  IN IF s = <<>> THEN <<>>
     ELSE IF i = 0 \/ i = Len(s) THEN <<s>>
     ELSE <<SubSeq(s, 1, i)>> \o LineChunks(SubSeq(s, i + 1, Len(s)))

\* how the Read calls of the reader may cut the stream
Chunkings(s) ==
  IF s = <<>> THEN { <<>> }
  ELSE { <<s>>, LineChunks(s) }
       \cup { <<SubSeq(s, 1, i), SubSeq(s, i + 1, Len(s))>> :
                i \in 1..(Len(s) - 1) }
       \cup { <<<<Head(s)>>>> \o LineChunks(Tail(s)) }

Readers ==
  { [chunks |-> c, end |-> e] :
      c \in UNION { Chunkings(s) : s \in Streams }, e \in {"eof", "open"} }

Writers == { NoWriter, [data |-> <<>>, broken |-> TRUE] }

\* FileInfos a parser call may find already assembled
StartInfos ==
  { NewFileInfos,
    [NewFileInfos EXCEPT !.Atime = 7, !.Mtime = 9],
    [Message |-> <<>>, Filename |-> <<"o">>,
     Permissions |-> <<"0", "6", "0", "0">>, Size |-> 5, Atime |-> 7,
     Mtime |-> 9] }

\* the arguments Update may be called with
NewInfos ==
  { NilFileInfos, Ref(NewFileInfos),
    Ref([NewFileInfos EXCEPT !.Filename = <<"t">>]),
    Ref([NewFileInfos EXCEPT !.Permissions = <<"0", "7", "7", "7">>,
                             !.Size = 3]),
    Ref([NewFileInfos EXCEPT !.Atime = 11]),
    Ref([NewFileInfos EXCEPT !.Mtime = 12, !.Size = 0 - 5]),
    Ref([Message |-> <<"m">>, Filename |-> <<"n">>,
         Permissions |-> <<"0", "4", "0", "0">>, Size |-> 1, Atime |-> 13,
         Mtime |-> 14]) }

ParserInit ==
  /\ \/ reader \in Readers /\ writer \in Writers /\ fileInfos = NewFileInfos
     \/ reader = NoReader /\ writer = NoWriter /\ fileInfos \in StartInfos
  /\ pres = NoParse
  /\ VariantIdle
  /\ CodecIdle
  /\ Session = NoSession
  /\ Conn = NoConn
  /\ sshClient = NoSSHClient
  /\ closeCalls = 0
  /\ prior = <<>>
  /\ probe = "none"
  /\ TransferIdle

\* the record of one parser call
Parsed(op, e, isNil, blocked, in, new, stream, lost) ==
  [op |-> op, prev |-> pres.op, n |-> pres.n + 1, err |-> e,
   isNil |-> isNil, blocked |-> blocked, in |-> in, new |-> new,
   before |-> fileInfos, stream |-> stream, lost |-> lost]

\* fileInfos, err := ParseResponse(reader, writer)
DoParseResponse ==
  /\ pres.op = "none"
  /\ LET r == ParseResponse(reader, writer)
     IN /\ reader' = r.reader
        /\ writer' = r.writer
        /\ fileInfos' = r.fileInfos
        /\ pres' = Parsed("ParseResponse", r.err, r.isNil, r.blocked, <<>>,
                          NilFileInfos, Flatten(reader.chunks), r.lost)
  /\ UNCHANGED << transferVars, clientVars, codecVars,
                  variantVars >>

\* a call made directly on a FileInfos being assembled
Direct ==
  /\ pres.op # "ParseResponse"
  /\ pres.n < MaxParses
  /\ reader = NoReader
  /\ writer = NoWriter

\* err := ParseFileInfos(message, fileInfos)
DoParseFileInfos ==
  /\ Direct
  /\ \E message \in CreateMessages \cup {<<>>} :
       LET r == ParseFileInfosUpdate(message, fileInfos)
       IN /\ fileInfos' = r.fileInfos
          /\ pres' = Parsed("ParseFileInfos", r.err, FALSE, FALSE, message,
                            NilFileInfos, <<>>, <<>>)
  /\ UNCHANGED << reader, writer, transferVars, clientVars, codecVars,
                  variantVars >>

\* err := ParseFileTime(message, fileInfos)
DoParseFileTime ==
  /\ Direct
  /\ \E message \in TimeMessages \cup {<<>>} :
       LET r == ParseFileTime(message, fileInfos)
       IN /\ fileInfos' = r.fileInfos
          /\ pres' = Parsed("ParseFileTime", r.err, FALSE, FALSE, message,
                            NilFileInfos, <<>>, <<>>)
  /\ UNCHANGED << reader, writer, transferVars, clientVars, codecVars,
                  variantVars >>

\* fileInfos.Update(new)
DoUpdate ==
  /\ Direct
  /\ \E new \in NewInfos :
       /\ fileInfos' = Update(fileInfos, new)
       /\ pres' = Parsed("Update", Nil, FALSE, FALSE, <<>>, new, <<>>, <<>>)
  /\ UNCHANGED << reader, writer, transferVars, clientVars, codecVars,
                  variantVars >>

ParserNext ==
  \/ DoParseResponse
  \/ DoParseFileInfos
  \/ DoParseFileTime
  \/ DoUpdate

ParserSpec == ParserInit /\ [][ParserNext]_vars

\* ==================================== the upload with a sudo password
\* fmt.Errorf("scp sudo: could not provide sudo password")
SudoWriteErr == Err("scp sudo: could not provide sudo password", <<>>)

\* fmt.Errorf("sudo failed")
SudoFailed == Err("sudo failed", <<>>)

\* errors.New("timeout when upload files")
UploadTimeout == Err("timeout when upload files", <<>>)

\* a.SudoPassword + "\n", the password being "p"
PasswordLine == <<"p", NL>>

\* what a transfer step of the variant leaves alone
sudoRest == << transferVars, clientVars, codecVars, parserVars, timedDl >>

SudoInit ==
  /\ sudoUp \in { [SudoUpCall(pw) EXCEPT !.mpc = "pipes"] : pw \in BOOLEAN }
  /\ timedDl = NoTimedDl
  /\ reader = NoReader
  /\ writer = NoWriter
  /\ fileInfos = NewFileInfos
  /\ pres = NoParse
  /\ CodecIdle
  /\ Session = NoSession
  /\ Conn = NoConn
  /\ sshClient = NoSSHClient
  /\ closeCalls = 0
  /\ prior = <<>>
  /\ probe = "none"
  /\ TransferIdle

\* errCh <- e on make(chan error, 3)
SudoSend(s, e) ==
  [s EXCEPT !.errCh = Append(@, e), !.sent = Append(@, e)]

\* the value a receive from sudoCh yields: the buffered value, or the zero
\* value false once the channel is closed and empty
SudoRecv(s) == IF s.sudoCh # <<>> THEN Head(s.sudoCh) ELSE FALSE

\* w, err := a.Session.StdinPipe(); stdout, err := a.Session.StdoutPipe()
SuPipes ==
  /\ sudoUp.mpc = "pipes"
  /\ \E e \in {Nil, PipeErr} :
       sudoUp' = IF e # Nil
                   THEN [sudoUp EXCEPT !.mpc = "returned", !.result = e]
                   ELSE [sudoUp EXCEPT !.mpc = "spawn", !.wg = 2]
  /\ UNCHANGED sudoRest

\* if a.SudoPassword != "" { go func() {...}() } else { close(sudoCh) }, and
\* the two go statements
SuSpawn ==
  /\ sudoUp.mpc = "spawn"
  /\ sudoUp' = [sudoUp EXCEPT !.spc = IF sudoUp.pw THEN "write" ELSE "none",
                              !.sudoClosed = ~sudoUp.pw,
                              !.tpc = "recv", !.cpc = "run", !.mpc = "wait"]
  /\ UNCHANGED sudoRest

\* the goroutine that writes the password
SuPassword ==
  /\ sudoUp.spc = "write"
  /\ Len(sudoUp.errCh) < 3
  /\ \E e \in {Nil, WriteErr} :
       sudoUp' = IF e # Nil
                   THEN [SudoSend(sudoUp, SudoWriteErr) EXCEPT
                           !.sudoCh = <<FALSE>>, !.wrote = "failed",
                           !.spc = "done"]
                   ELSE [sudoUp EXCEPT !.w = @ \o PasswordLine,
                                       !.sudoCh = <<TRUE>>,
                                       !.sudoClosed = TRUE,
                                       !.wrote = "ok", !.spc = "done"]
  /\ UNCHANGED sudoRest

\* sudoSuccess := <-sudoCh; if !sudoSuccess { errCh <- "sudo failed"; return };
\* defer w.Close()
SuRecv ==
  /\ sudoUp.tpc = "recv"
  /\ sudoUp.sudoCh # <<>> \/ sudoUp.sudoClosed
  /\ Len(sudoUp.errCh) < 3
  /\ sudoUp' = IF SudoRecv(sudoUp)
                 THEN [sudoUp EXCEPT !.sudoCh = <<>>, !.deferred = TRUE,
                                     !.tpc = "header"]
                 ELSE [SudoSend(sudoUp, SudoFailed) EXCEPT
                         !.sudoCh = <<>>, !.tpc = "exit"]
  /\ UNCHANGED sudoRest

\* one statement of the data-plane goroutine that writes to w
SuWrite(pc, bytes, e) ==
  /\ sudoUp.tpc = pc
  /\ Len(sudoUp.errCh) < 3
  /\ sudoUp' = IF e # Nil
                 THEN [SudoSend(sudoUp, e) EXCEPT !.tpc = DataPlaneNext(pc, e)]
                 ELSE [sudoUp EXCEPT !.w = @ \o bytes,
                                     !.tpc = DataPlaneNext(pc, e)]
  /\ UNCHANGED sudoRest

\* fmt.Fprintln(w, "C"+permissions, size, filename)
SuHeader == \E e \in {Nil, WriteErr} : SuWrite("header", HeaderLine, e)

\* io.Copy(w, r), r holding one byte
SuCopy == \E e \in {Nil, WriteErr} : SuWrite("body", Payload(1), e)

\* fmt.Fprint(w, "\x00")
SuTerm == \E e \in {Nil, WriteErr} : SuWrite("term", <<NUL>>, e)

\* checkResponse(stdout)
SuAck(pc) ==
  /\ sudoUp.tpc = pc
  /\ Len(sudoUp.errCh) < 3
  /\ \E frame \in UploadFrames :
       LET r == checkResponse(sudoUp.stdout \o frame)
           s == [sudoUp EXCEPT !.stdout = r.rest,
                               !.tpc = DataPlaneNext(pc, r.err)]
       IN sudoUp' = IF r.err # Nil THEN SudoSend(s, r.err) ELSE s
  /\ UNCHANGED sudoRest

SuAck1 == SuAck("ack1")

SuAck2 == SuAck("ack2")

\* the deferred calls of the data-plane goroutine: w.Close() when it was
\* deferred, then wg.Done()
SuExit ==
  /\ sudoUp.tpc = "exit"
  /\ sudoUp' = [sudoUp EXCEPT !.wCloses = IF sudoUp.deferred THEN @ + 1 ELSE @,
                              !.wg = @ - 1, !.tpc = "done"]
  /\ UNCHANGED sudoRest

\* err := a.Session.Run(...); if err != nil { errCh <- err }; wg.Done()
SuRun ==
  /\ sudoUp.cpc = "run"
  /\ Len(sudoUp.errCh) < 3
  /\ \E e \in {Nil, ExitErr} :
       LET s == [sudoUp EXCEPT !.wg = @ - 1, !.cpc = "done"]
       IN sudoUp' = IF e # Nil THEN SudoSend(s, e) ELSE s
  /\ UNCHANGED sudoRest

\* waitTimeout: case <-c, c being closed once wg.Wait() has returned; then
\* close(errCh) and the first error of the channel
SuCollect ==
  /\ sudoUp.mpc = "wait"
  /\ sudoUp.wg = 0
  /\ sudoUp' = [sudoUp EXCEPT !.chClosed = TRUE,
                              !.result = FirstError(sudoUp.errCh),
                              !.errCh = AfterFirstError(sudoUp.errCh),
                              !.mpc = "returned"]
  /\ UNCHANGED sudoRest

\* waitTimeout: case <-time.After(timeout)
SuTimeout ==
  /\ sudoUp.mpc = "wait"
  /\ sudoUp' = [sudoUp EXCEPT !.result = UploadTimeout, !.mpc = "returned"]
  /\ UNCHANGED sudoRest

SudoNext ==
  \/ SuPipes
  \/ SuSpawn
  \/ SuPassword
  \/ SuRecv
  \/ SuHeader
  \/ SuAck1
  \/ SuCopy
  \/ SuTerm
  \/ SuAck2
  \/ SuExit
  \/ SuRun
  \/ SuCollect
  \/ SuTimeout

SudoSpec == SudoInit /\ [][SudoNext]_vars

\* ============================== the download bounded by Client.Timeout
\* errCh := make(chan error, 1)
TimedCap == 1

\* errors.New("timeout when download files")
DownloadTimeout == Err("timeout when download files", <<>>)

\* the statements of the download goroutine that can fail, in their order:
\* StdoutPipe, StdinPipe, Start, Ack, ParseResponse, ParseFileInfos, Ack,
\* CopyN, Ack, Wait
TimedSteps ==
  <<"stdout", "stdin", "start", "ack1", "parse", "infos", "ack2", "copy",
    "ack3", "wait">>

\* the error of a failing statement
StepErr(pc) == Err("step", <<pc>>)

\* the statement after a successful one; the deferred function after the last
AfterStep(pc) ==
  LET i == CHOOSE j \in 1..Len(TimedSteps) : TimedSteps[j] = pc
  IN IF i = Len(TimedSteps) THEN "deferred" ELSE TimedSteps[i + 1]

\* the values of a.Timeout: negative, zero, positive
TimedTimeouts == {0 - 1, 0, 1}

timedRest == << transferVars, clientVars, codecVars, parserVars, sudoUp >>

TimedInit ==
  /\ timedDl \in { [TimedDlCall(t, p) EXCEPT !.mpc = "spawn"] :
                     t \in TimedTimeouts, p \in BOOLEAN }
  /\ sudoUp = NoSudoUp
  /\ reader = NoReader
  /\ writer = NoWriter
  /\ fileInfos = NewFileInfos
  /\ pres = NoParse
  /\ CodecIdle
  /\ Session = NoSession
  /\ Conn = NoConn
  /\ sshClient = NoSSHClient
  /\ closeCalls = 0
  /\ prior = <<>>
  /\ probe = "none"
  /\ TransferIdle

\* errCh <- e: possible while the buffer has room
TimedSend(d, e) ==
  [d EXCEPT !.errCh = Append(@, e), !.sent = Append(@, e)]

\* wg.Add(1); go func() {...}()
TdSpawn ==
  /\ timedDl.mpc = "spawn"
  /\ timedDl' = [timedDl EXCEPT !.wg = 1, !.tpc = "stdout", !.mpc = "wait"]
  /\ UNCHANGED timedRest

\* one statement of the goroutine: err is assigned; if err != nil
\* { errCh <- err; return }
TdStep(pc) ==
  /\ timedDl.tpc = pc
  /\ \E e \in {Nil, StepErr(pc)} :
       IF e = Nil
         THEN timedDl' = [timedDl EXCEPT !.err = Nil, !.tpc = AfterStep(pc)]
         ELSE /\ Len(timedDl.errCh) < TimedCap
              /\ timedDl' = [TimedSend(timedDl, e) EXCEPT !.err = e,
                                                          !.tpc = "deferred"]
  /\ UNCHANGED timedRest

TdStdoutPipe == TdStep("stdout")

TdStdinPipe == TdStep("stdin")

TdStart == TdStep("start")

TdAck1 == TdStep("ack1")

TdParseResponse == TdStep("parse")

TdParseFileInfos == TdStep("infos")

TdAck2 == TdStep("ack2")

\* if passThru != nil { r = passThru(r, infos.Size) }; CopyN(w, r, infos.Size)
TdCopyN ==
  /\ timedDl.tpc = "copy"
  /\ \E e \in {Nil, StepErr("copy")} :
       IF e = Nil
         THEN timedDl' = [timedDl EXCEPT !.err = Nil,
                                         !.wrapped = timedDl.passThru,
                                         !.tpc = AfterStep("copy")]
         ELSE /\ Len(timedDl.errCh) < TimedCap
              /\ timedDl' = [TimedSend(timedDl, e) EXCEPT
                               !.err = e, !.wrapped = timedDl.passThru,
                               !.tpc = "deferred"]
  /\ UNCHANGED timedRest

TdAck3 == TdStep("ack3")

TdSessionWait == TdStep("wait")

\* the deferred function: if err != nil { errCh <- err }
TdDeferFirst ==
  /\ timedDl.tpc = "deferred"
  /\ timedDl.err # Nil => Len(timedDl.errCh) < TimedCap
  /\ timedDl' = IF timedDl.err # Nil
                  THEN [TimedSend(timedDl, timedDl.err) EXCEPT
                          !.tpc = "deferred2"]
                  ELSE [timedDl EXCEPT !.tpc = "deferred2"]
  /\ UNCHANGED timedRest

\* the deferred function: errCh <- err; wg.Done()
TdDeferSecond ==
  /\ timedDl.tpc = "deferred2"
  /\ Len(timedDl.errCh) < TimedCap
  /\ timedDl' = [TimedSend(timedDl, timedDl.err) EXCEPT !.wg = @ - 1,
                                                       !.tpc = "done"]
  /\ UNCHANGED timedRest

\* the goroutine of waitTimeout: wg.Wait() returns at counter 0; close(c)
TdWaiterClose ==
  /\ timedDl.mpc # "spawn"
  /\ timedDl.wg = 0
  /\ timedDl.c = "open"
  /\ timedDl' = [timedDl EXCEPT !.c = "closed"]
  /\ UNCHANGED timedRest

\* waitTimeout: case <-c; then close(errCh); return <-errCh
TdCollect ==
  /\ timedDl.mpc = "wait"
  /\ timedDl.c = "closed"
  /\ timedDl' = [timedDl EXCEPT
                   !.chClosed = TRUE,
                   !.result = IF timedDl.errCh # <<>> THEN Head(timedDl.errCh)
                              ELSE Nil,
                   !.errCh = IF timedDl.errCh # <<>> THEN Tail(@) ELSE @,
                   !.mpc = "returned"]
  /\ UNCHANGED timedRest

\* waitTimeout with timeout > 0: case <-time.After(timeout)
TdTimeout ==
  /\ timedDl.mpc = "wait"
  /\ timedDl.Timeout > 0
  /\ timedDl' = [timedDl EXCEPT !.result = DownloadTimeout, !.mpc = "returned"]
  /\ UNCHANGED timedRest

TimedNext ==
  \/ TdSpawn
  \/ TdStdoutPipe
  \/ TdStdinPipe
  \/ TdStart
  \/ TdAck1
  \/ TdParseResponse
  \/ TdParseFileInfos
  \/ TdAck2
  \/ TdCopyN
  \/ TdAck3
  \/ TdSessionWait
  \/ TdDeferFirst
  \/ TdDeferSecond
  \/ TdWaiterClose
  \/ TdCollect
  \/ TdTimeout

TimedSpec == TimedInit /\ [][TimedNext]_vars

\* ============================================================ the client
\* NewClient / NewClientWithTimeout: neither Session nor Conn is set
NewClient ==
  [Session |-> NoSession, Conn |-> NoConn, sshClient |-> NoSSHClient]

\* NewClientBySSH(sshClient): the client works on a session of the ssh client
\* its caller dialed, and holds no connection of its own
NewClientBySSH ==
  [Session |-> FreshSession, Conn |-> NoConn,
   sshClient |-> [origin |-> "user", open |-> TRUE, dials |-> 0]]

\* a freshly constructed client; no transfer has been called
ClientInit ==
  /\ \E c \in {NewClient, NewClientBySSH} :
       /\ Session = c.Session
       /\ Conn = c.Conn
       /\ sshClient = c.sshClient
  /\ closeCalls = 0
  /\ prior = <<>>
  /\ probe = "none"
  /\ CodecIdle
  /\ ParserIdle
  /\ TransferIdle

\* the arguments of the uploads called on the client: permissions, remote
\* path and declared size
UploadCalls ==
  { [permissions |-> p, remotePath |-> <<"/", "d", "/", "t">>, size |-> 1] :
      p \in Perms \cup BadPerms }
  \cup { [permissions |-> <<"0", "7", "7", "7">>,
          remotePath |-> <<"/", "d", "/", "t", "e", "s", "t", ".", "t", "x", "t">>,
          size |-> 9] }
  \cup { [permissions |-> <<"0", "6", "4", "4">>, remotePath |-> r, size |-> 1] :
           r \in { <<"t">>, <<"/", "d", "/", "e", "/">>, <<"/">> } }

DownloadCalls ==
  { [permissions |-> <<"0", "6", "4", "4">>,
     remotePath |-> <<"/", "d", "/", "t">>, size |-> 0] }

\* no transfer call is running on the client
Quiet == mpc \in {"idle", "returned"}

ConnectConn_unset(c) == NoConn

\* a.Conn = client.Conn
ConnectConn(c) == DialedConn

\* Connect: nothing to do when a session exists; else ssh.Dial, which may
\* fail, then a.Conn = client.Conn and a.Session, err = client.NewSession()
Connect ==
  /\ Quiet
  /\ IF Session.set
       THEN UNCHANGED << Session, Conn, sshClient >>
       ELSE /\ sshClient.dials < MaxDials
            /\ \E dial \in {"ok", "error"} :
                 IF dial = "error"
                   THEN /\ sshClient' = [sshClient EXCEPT !.dials = @ + 1]
                        /\ UNCHANGED << Session, Conn >>
                   ELSE /\ sshClient' = [DialedSSHClient EXCEPT
                                            !.dials = sshClient.dials + 1]
                        /\ Conn' = ConnectConn(sshClient')
                        /\ Session' \in {FreshSession, NoSession}
  /\ UNCHANGED << closeCalls, prior, probe, transferVars, pureVars >>

\* Close: a.Session.Close() if a.Session != nil, a.Conn.Close() if
\* a.Conn != nil; closing the connection closes the ssh client it belongs to
Close ==
  /\ Quiet
  /\ closeCalls < MaxCloses
  /\ closeCalls' = closeCalls + 1
  /\ Session' = IF Session.set THEN [Session EXCEPT !.closes = @ + 1]
                ELSE Session
  /\ Conn' = IF Conn.set THEN [Conn EXCEPT !.closes = @ + 1] ELSE Conn
  /\ sshClient' = IF Conn.set THEN [sshClient EXCEPT !.open = FALSE]
                  ELSE sshClient
  /\ UNCHANGED << prior, probe, transferVars, pureVars >>

\* sshClient.NewSession() after Close has released the client's session or
\* connection: fails on a closed ssh client
ProbeNewSession ==
  /\ Session.closes + Conn.closes > 0
  /\ probe = "none"
  /\ probe' = IF sshClient.open THEN "ok" ELSE "failed"
  /\ UNCHANGED << Session, Conn, sshClient, closeCalls, prior, transferVars,
                  pureVars >>

\* the caller starts the next transfer on the client, after the one before
\* has returned: CopyPassThru (upload) or CopyFromRemotePassThru (download)
\* with a background context and no Timeout
CallTransfer ==
  /\ Quiet
  /\ Session.set
  /\ closeCalls = 0
  /\ Len(prior) + (IF mpc = "returned" THEN 1 ELSE 0) < MaxCalls
  /\ prior' = IF mpc = "returned" THEN Append(prior, result) ELSE prior
  /\ mode' \in Modes
  /\ \E a \in IF mode' = "upload" THEN UploadCalls ELSE DownloadCalls :
       /\ permissions' = a.permissions
       /\ remotePath' = a.remotePath
       /\ size' = a.size
  /\ src' = Payload(IF mode' = "upload" THEN 1 ELSE 0)
  /\ ctxErr' = Nil
  /\ timer' = "none"
  /\ mpc' = IF mode' = "upload" THEN "pipes" ELSE "spawn"
  /\ result' = Pending
  /\ wpc' = "none"
  /\ wg' = 0
  /\ errCh' = <<>>
  /\ chClosed' = FALSE
  /\ sent' = <<>>
  /\ tpc' = "idle"
  /\ cpc' = "idle"
  /\ terr' = Nil
  /\ srcPos' = 0
  /\ stdout' = <<>>
  /\ win' = <<>>
  /\ wCloses' = 0
  /\ sink' = <<>>
  /\ infos' = NoInfos
  /\ acks' = <<>>
  /\ exitErr' = Pending
  /\ log' = <<>>
  /\ hist' = NoHist
  /\ UNCHANGED << Timeout, callerCtx, Session, Conn, sshClient, closeCalls,
                  probe, pureVars >>

\* the client's operations, and the steps of a transfer called with a
\* background context
ClientNext ==
  \/ Connect
  \/ Close
  \/ ProbeNewSession
  \/ CallTransfer
  \/ MainPipes
  \/ MainSpawn
  \/ MainWait
  \/ WaiterClose
  \/ MainSelect
  \/ MainCollect
  \/ UpHeader
  \/ UpAck1
  \/ UpAck2
  \/ UpCopy
  \/ UpTerm
  \/ UpExit
  \/ UpRun
  \/ DlPipes
  \/ DlStart
  \/ DlAckReady
  \/ DlAckRequest
  \/ DlAckFinal
  \/ DlParse
  \/ DlCopy
  \/ DlWait
  \/ DlDeferred

ClientSpec == ClientInit /\ [][ClientNext]_vars

\* ================================================================ claims
Returned == mpc = "returned"

Ops(l) == [i \in 1..Len(l) |-> l[i].op]

AllButLastOk(l) == \A i \in 1..(Len(l) - 1) : l[i].ok

AllOk(l) == \A i \in 1..Len(l) : l[i].ok

Count(l, op) == Cardinality({i \in 1..Len(l) : l[i].op = op /\ l[i].ok})

\* position in the upload exchange after the steps of l, "bad" when l is
\* not header, response, body*, terminator, response
RECURSIVE UploadStage(_, _)
UploadStage(l, st) ==
  IF l = <<>> THEN st
  ELSE LET op == Head(l)
           nx == CASE st = "expect header" /\ op = "header" -> "expect response 1"
                   [] st = "expect response 1" /\ op = "response" -> "body"
                   [] st = "body" /\ op = "body" -> "body"
                   [] st = "body" /\ op = "terminator" -> "expect response 2"
                   [] st = "expect response 2" /\ op = "response" -> "end"
                   [] OTHER -> "bad"
       IN IF nx = "bad" THEN "bad" ELSE UploadStage(Tail(l), nx)

\* C1: an upload returns nil only if both acknowledgment checks read an Ok
\* response and the remote receiver command exited without error; an exit
\* error of the remote command makes the call return a non-nil error.
C1_UploadNilOnlyIfAcksAndExitOk ==
  (mode = "upload" /\ Returned) =>
    /\ result = Nil =>
         /\ Len(acks) = 2
         /\ \A i \in 1..2 : acks[i].err = Nil /\ acks[i].Type = Ok
         /\ exitErr = Nil
    /\ exitErr = ExitErr => result # Nil

C1_Witness ==
  /\ mode = "upload" /\ Returned /\ hist.wait = "nil"
  /\ result = ExitErr
  /\ Len(acks) = 2 /\ acks[1].Type = Ok /\ acks[2].Type = Ok /\ acks[2].err = Nil

\* C2: the upload data-plane task takes its steps in the order header line,
\* first response, body bytes, one NUL terminator, second response, each only
\* after the one before it succeeded; no body byte precedes an Ok first
\* response and the terminator follows the whole body.
C2_UploadOrder ==
  mode = "upload" =>
    /\ UploadStage(Ops(log), "expect header") # "bad"
    /\ AllButLastOk(log)
    /\ Count(log, "terminator") <= 1
    /\ (\E i \in 1..Len(log) : log[i].op = "body") =>
         /\ acks # <<>> /\ acks[1].err = Nil /\ acks[1].Type = Ok
    /\ (\E i \in 1..Len(log) : log[i].op = "terminator") => srcPos = Len(src)
    /\ win = (IF Count(log, "header") = 1 THEN HeaderLine ELSE <<>>)
               \o SubSeq(src, 1, Count(log, "body"))
               \o (IF Count(log, "terminator") = 1 THEN <<NUL>> ELSE <<>>)

C2_Witness ==
  /\ mode = "upload" /\ tpc = "done"
  /\ Len(src) = MaxSrc /\ Len(log) = 4 + MaxSrc /\ AllOk(log)

\* C3: the upload data-plane task writes exactly `size` body bytes between
\* the header line and the NUL terminator, whatever the source holds.
C3_ExactlySizeBodyBytes ==
  (mode = "upload" /\ Count(log, "terminator") = 1) => Count(log, "body") = size

DownloadOrder == <<"start", "ack", "header", "ack", "body", "ack", "wait">>

\* C4: the download takes its steps in the order start of the remote
\* command, ready Ack, header read and parsed, Ack requesting the body (with
\* the size known, before any body byte), body copy, final Ack, wait for the
\* remote's exit; no step starts before the previous one succeeded.
C4_DownloadOrder ==
  mode = "download" =>
    /\ Len(log) <= Len(DownloadOrder)
    /\ Ops(log) = SubSeq(DownloadOrder, 1, Len(log))
    /\ AllButLastOk(log)
    /\ win = [i \in 1..Count(log, "ack") |-> NUL]
    /\ Len(log) >= 4 =>
         /\ acks # <<>> /\ infos = ParseFileInfos(acks[1].Message)
         /\ infos.err = Nil
    /\ Len(log) < 5 => sink = <<>>
    /\ exitErr # Pending => Len(log) = 7

C4_Witness ==
  mode = "download" /\ Len(log) = 7 /\ AllOk(log) /\ infos.Size = MaxSize

\* the size field of a Create message as the remote wrote it
Announced(message) == Atoi(Split(Remove(message, NL), SP)[2]).val

\* C5: on a successful download the sink holds exactly the `size` bytes the
\* Create line announced, in order, and the byte that follows them in the
\* stream has not been consumed.
C5_DownloadSinkExact ==
  (mode = "download" /\ Returned /\ result = Nil) =>
    /\ acks # <<>> /\ acks[1].Type = Create
    /\ sink = Payload(Announced(acks[1].Message))
    /\ stdout = <<Ok>>

C5_Witness ==
  /\ mode = "download" /\ Returned /\ result = Nil
  /\ Len(sink) = MaxSize /\ MaxSize > 0

\* C6: a download returns nil only if every step succeeded (remote started,
\* header parsed as a non-failure response, three Acks written, `size` bytes
\* copied, remote exit without error); a failed step makes the call return a
\* non-nil error and no later step is executed.
C6_DownloadNilOnlyIfAllSteps ==
  mode = "download" =>
    /\ AllButLastOk(log)
    /\ (\E i \in 1..Len(sent) : sent[i] # Nil) => tpc \in {"deferred", "done"}
    /\ Returned =>
         /\ result = Nil =>
              /\ Ops(log) = DownloadOrder /\ AllOk(log)
              /\ acks[1].err = Nil /\ ~IsFailure(acks[1])
              /\ win = <<NUL, NUL, NUL>>
              /\ Len(sink) = infos.Size
              /\ exitErr = Nil
         /\ (\E i \in 1..Len(sent) : sent[i] # Nil) => result # Nil

C6_Witness ==
  /\ mode = "download" /\ Returned /\ hist.wait = "nil"
  /\ Len(log) = 5 /\ ~log[5].ok /\ result = SinkErr

\* the message line the remote sender wrote after a failure status byte
RemoteLine(type) == IF type = Warning THEN WarnMsg ELSE ErrMsg

FailureAnswer == acks # <<>> /\ acks[1].err = Nil /\ acks[1].Type \in {Warning, Error}

C8_PreDoneContextError ==
  (callerCtx \in {"canceled", "expired"} /\ Returned /\ hist.wait # "pending")
    => result = CallerErr(callerCtx)

\* C9: with Client.Timeout > 0, a timeout that elapses before all spawned
\* tasks have finished makes the call return context.DeadlineExceeded; with
\* Client.Timeout = 0 there is no timer.
C9_TimeoutBoundsWait ==
  /\ Timeout = 0 => timer = "none"
  /\ (Returned /\ hist.timedOut) => result = DeadlineExceeded

\* C10 as stated: when both upload tasks have finished before the deadline
\* and at least one reported an error, the call returns the first error put
\* into the error channel.
C10_FirstErrorIfJoinedBeforeDeadline ==
  (mode = "upload" /\ callerCtx = "background" /\ Returned /\ hist.joinedLive
     /\ sent # <<>>)
    => result = sent[1]

\* C10 amended: when the joint wait of an upload returns on the completion of
\* both tasks (not on the context) and at least one task reported an error,
\* the call returns the first error put into the error channel, never nil
\* and never a later one.
C10_FirstErrorIfWaitCompleted ==
  (mode = "upload" /\ Returned /\ hist.wait = "nil") =>
    /\ wg = 0
    /\ sent # <<>> => (result = sent[1] /\ result # Nil)
    /\ sent = <<>> => result = Nil

C10_Witness ==
  /\ mode = "upload" /\ Returned /\ hist.wait = "nil"
  /\ Len(sent) = 2 /\ sent[1] # sent[2] /\ sent[1] = ExitErr

\* ----------------------------------------------------------------- C11
\* the sends the tasks of the call may still perform: each upload task sends
\* at most one error; the download task sends the failed step's error and,
\* from its deferred function, its err variable
PendingSends ==
  IF mode = "upload"
    THEN (IF tpc \in {"header", "ack1", "body", "term", "ack2"} THEN 1 ELSE 0)
         + (IF cpc = "run" THEN 1 ELSE 0)
    ELSE IF tpc \in {"pipes", "start", "ready", "parse", "request", "copy",
                     "final", "await"} THEN 2
    ELSE IF tpc = "deferred" THEN 1
    ELSE 0

\* C11: in every state of an upload or a download, also after the call has
\* returned on an expired deadline, the errors sent so far together with those
\* the tasks may still send fit into the error channel, so that no send blocks
C11_SendsNeverBlock ==
  /\ Len(sent) + PendingSends <= ErrChCap
  /\ Len(errCh) <= Len(sent)

\* the call returned on the fired timeout and both upload tasks have sent
C11_Witness ==
  /\ mode = "upload"
  /\ Returned
  /\ hist.wait = "ctx"
  /\ timer = "fired"
  /\ Len(errCh) = ErrChCap

\* ----------------------------------------------------------------- C12
DeadlineAttached == Timeout > 0 \/ callerCtx \in {"expired", "deadline"}

\* C12: a call with a deadline attached (a context deadline, or Timeout > 0)
\* eventually returns, whether or not its tasks ever make another step
C12_DeadlineReturns == DeadlineAttached => <>Returned

\* the upload returned on the deadline while the data-plane task still waits
\* for the first response and the remote command still runs
C12_Witness ==
  /\ mode = "upload"
  /\ DeadlineAttached
  /\ Returned
  /\ result = DeadlineExceeded
  /\ tpc = "ack1"
  /\ cpc = "run"

\* ----------------------------------------------------------------- C13
\* C13: however often Close is called, the session and the connection are
\* each released at most once
C13_ReleasedOnce == Session.closes <= 1 /\ Conn.closes <= 1

\* ----------------------------------------------------------------- C14
\* Close has acted on a session or a connection of the client
Released == Session.closes + Conn.closes > 0

C14_LibraryClosed ==
  /\ sshClient.origin = "library"
  /\ mpc = "returned"
  /\ Released
  /\ probe = "failed"

\* ----------------------------------------------------------------- C15
\* nothing outside the client failed in the current call: every step taken
\* was answered well, the remote command ended well, and no pipe of a session
\* not yet started was refused
NoFault ==
  /\ AllOk(log)
  /\ exitErr \in {Nil, Pending}
  /\ result # PipeErr

\* the first transfer on a client succeeds when nothing outside fails
FirstTransferSucceeds ==
  (Returned /\ prior = <<>> /\ NoFault) => result = Nil

\* C15: a transfer called after the transfers before it on the same client
\* returned successfully succeeds as well, when nothing outside fails
C15_SequentialTransfersSucceed ==
  (/\ Returned
   /\ prior # <<>>
   /\ \A i \in 1..Len(prior) : prior[i] = Nil
   /\ NoFault) => result = Nil

\* ----------------------------------------------------------------- C16
\* permissions in [0, 0777], size in [0, 2^31), no space, newline or NUL in
\* the filename
InRange(c) ==
  /\ c.Permissions \in 0..ModePerm
  /\ c.Size \in 0..2147483647
  /\ \A i \in 1..Len(c.Filename) : c.Filename[i] \notin {SP, NL, NUL}

\* C16: decoding the bytes MarshalText produced for a Command in range
\* succeeds and gives the same permissions, size and filename
C16_RoundTrip ==
  (out.op = "RoundTrip" /\ InRange(out.cmd)) =>
    /\ out.err = Nil
    /\ cmd = out.cmd

\* permissions 07, the largest size and a filename have made the round trip
C16_Witness ==
  /\ out.op = "RoundTrip"
  /\ out.prev = "MarshalText"
  /\ out.cmd = [Permissions |-> 7, Size |-> 2147483647,
                Filename |-> <<"a", ".", "b">>]
  /\ cmd = out.cmd

\* ----------------------------------------------------------------- C17
RECURSIVE ZeroPad(_, _)
ZeroPad(ds, n) == IF Len(ds) >= n THEN ds ELSE ZeroPad(<<"0">> \o ds, n)

\* C17: for permissions in [0, 0777] the encoded line is "C", "0" and three
\* zero-padded octal digits, a space, the decimal size, a space, the filename
\* and a newline
C17_EncodedLayout ==
  (out.op = "MarshalText" /\ out.cmd.Permissions \in 0..ModePerm) =>
    /\ out.err = Nil
    /\ out.text = <<"C", "0">> \o ZeroPad(FormatInt(out.cmd.Permissions, 8), 3)
                    \o <<SP>> \o FormatInt(out.cmd.Size, 10) \o <<SP>>
                    \o out.cmd.Filename \o <<NL>>

\* ----------------------------------------------------------------- C18
\* sub occurs in s
Contains(s, sub) ==
  \E i \in 0..(Len(s) - Len(sub)) : SubSeq(s, i + 1, i + Len(sub)) = sub

\* C18: MarshalText of permissions above 0777 fails with the bad-permissions
\* error, whose message holds the value in octal and in decimal, and gives no
\* bytes; NewCommand takes every octal string, also one above 0777
C18_BadPermissions ==
  /\ (out.op = "MarshalText" /\ out.cmd.Permissions > ModePerm) =>
       /\ out.err.kind = "bad permissions"
       /\ out.text = <<>>
       /\ Contains(out.err.text, FormatInt(out.cmd.Permissions, 8))
       /\ Contains(out.err.text, FormatInt(out.cmd.Permissions, 10))
  /\ (out.op = "NewCommand" /\ ParseInt(out.text, 8).ok) =>
       /\ out.err = Nil
       /\ cmd.Permissions = ParseInt(out.text, 8).val

\* NewCommand took "1000" and MarshalText then refused the Command
C18_Witness ==
  /\ out.op = "MarshalText"
  /\ out.prev = "NewCommand"
  /\ out.cmd.Permissions = ModePerm + 1
  /\ out.err = BadPermissions(ModePerm + 1)

\* ----------------------------------------------------------------- C19
\* the fields of a line once its trailing NUL and newline bytes are stripped
FieldsOf(t) == Split(TrimRight(t, {NL, NUL}), SP)

\* C19: UnmarshalText gives the invalid-command error exactly for the lines
\* that do not have 3 fields, and then leaves the Command as it was
C19_InvalidCommandIff3Fields ==
  out.op = "UnmarshalText" =>
    /\ (out.err.kind = "invalid command") <=> (Len(FieldsOf(out.text)) # 3)
    /\ (out.err.kind = "invalid command") => cmd = out.cmd

\* a 4-field line with a leading newline was refused and the used Command kept
C19_Witness ==
  /\ out.op = "UnmarshalText"
  /\ out.err.kind = "invalid command"
  /\ Len(FieldsOf(out.text)) = 4
  /\ Head(out.text) = NL
  /\ out.cmd # NoCommand
  /\ cmd = out.cmd

\* ----------------------------------------------------------------- C20
\* the line starts with its tag, has 3 fields, and the first one, without the
\* tag, holds a byte that is no octal digit
BadOctalLine(t) ==
  /\ Len(FieldsOf(t)) = 3
  /\ FieldsOf(t)[1] # <<>>
  /\ Head(t) \notin {NL, NUL}
  /\ \E i \in 2..Len(FieldsOf(t)[1]) :
       FieldsOf(t)[1][i] \notin {"0", "1", "2", "3", "4", "5", "6", "7"}

ParseFailure == out.err.kind \in {"strconv.ParseInt", "strconv.Atoi"}

\* C20: decoding such a line fails with a parse error and leaves no Command,
\* with the UnmarshalText of either Command
C20_NonOctalRejected ==
  (out.op \in {"UnmarshalText", "DecimalUnmarshalText"}
     /\ BadOctalLine(out.text)) =>
    /\ ParseFailure
    /\ cmd = out.cmd

\* the same for the UnmarshalText that reads the permissions with ParseInt
OctalUnmarshalRejects ==
  (out.op = "UnmarshalText" /\ BadOctalLine(out.text)) =>
    /\ ParseFailure
    /\ cmd = out.cmd

\* ----------------------------------------------------------------- C21
\* the size field of a command line, when the line has its three fields
SizeField(t) == FieldsOf(t)[2]

\* C21: no decoded Command carries a negative size (a size that wraps when
\* it is stored as unsigned): a line whose size field is negative is rejected
C21_NoNegativeSize ==
  (out.op = "UnmarshalText" /\ out.err = Nil) => cmd.Size >= 0

\* the same for the FileInfos of a Create message
FileInfosSizeNotNegative ==
  (pres.op \in {"ParseFileInfos", "ParseResponse"} /\ pres.err = Nil
     /\ pres.before.Size >= 0) =>
    fileInfos.Size >= 0

\* a non-numeric size field is rejected by both decoders
NonNumericSizeRejected ==
  /\ (out.op = "UnmarshalText" /\ Len(FieldsOf(out.text)) = 3
        /\ SizeField(out.text) = <<"x">>) => out.err # Nil
  /\ (pres.op = "ParseFileInfos" /\ Len(Split(Remove(pres.in, NL), SP)) >= 3
        /\ Split(Remove(pres.in, NL), SP)[2] = <<"x">>) => pres.err # Nil

\* ----------------------------------------------------------------- C22
\* ParseResponse was called on a stream that starts with the zero byte
OkStream ==
  /\ pres.op = "ParseResponse"
  /\ pres.stream # <<>>
  /\ Head(pres.stream) = Ok

\* C22: on a leading zero byte ParseResponse returns at once without an error
\* and with an empty message, and has taken exactly one byte: every byte after
\* the status byte is still in the stream, none is held back in a buffer
C22_OkConsumesOneByte ==
  OkStream =>
    /\ ~pres.blocked
    /\ pres.err = Nil
    /\ ~pres.isNil
    /\ fileInfos = NewFileInfos
    /\ fileInfos.Message = <<>>
    /\ Flatten(reader.chunks) = Tail(pres.stream)
    /\ pres.lost = <<>>
    /\ writer.data = <<>>

\* the bytes "a", "b" that followed the zero byte are still to be read
C22_Witness ==
  /\ OkStream
  /\ pres.stream = <<NUL, "a", "b">>
  /\ pres.err = Nil
  /\ Flatten(reader.chunks) = <<"a", "b">>

\* ----------------------------------------------------------------- C23
\* ParseResponse was called on a stream whose first line is complete
LineStream ==
  /\ pres.op = "ParseResponse"
  /\ pres.stream # <<>>
  /\ IndexOf(Tail(pres.stream), NL) # 0

\* the line that follows the status byte, its newline included
FirstLine == SubSeq(Tail(pres.stream), 1, IndexOf(Tail(pres.stream), NL))

\* the stream starts with status byte 1 or 2 and a complete line
FailureStream == LineStream /\ Head(pres.stream) \in {Warning, Error}

\* C23: on status byte 1 or 2 ParseResponse reads the line and reports a
\* failure whose message is the line verbatim, newline included; the Response
\* reading of the same stream has kind Warning for 1 and Error for 2, IsFailure
\* is true for exactly these two, and checkResponse gives the same error; a
\* status byte 0, or any other first byte, is not reported as such a failure
C23_FailureCarriesLine ==
  /\ FailureStream =>
       /\ ~pres.blocked
       /\ ~pres.isNil
       /\ pres.err = ErrorsNew(FirstLine)
       /\ pres.err.text[Len(pres.err.text)] = NL
       /\ LET res == ReadResponse(pres.stream)
          IN /\ res.Type = Head(pres.stream)
             /\ IsFailure(res)
             /\ GetMessage(res) = FirstLine
       /\ checkResponse(pres.stream).err = pres.err
  /\ OkStream =>
       /\ pres.err = Nil
       /\ ~IsFailure(ReadResponse(pres.stream))
  /\ (LineStream /\ ~FailureStream) =>
       /\ pres.err.kind # "message"
       /\ ~IsFailure(ReadResponse(pres.stream))

\* the warning "df\n" was reported, and the byte after the line was not part
\* of the message
C23_Witness ==
  /\ FailureStream
  /\ pres.stream = <<SOH, "d", "f", NL, "x">>
  /\ pres.err = ErrorsNew(<<"d", "f", NL>>)

\* ----------------------------------------------------------------- C24
\* ParseFileTime accepted the message it was given
TimeParsed == pres.op = "ParseFileTime" /\ pres.err = Nil

\* the first 10 characters of field i of the Time message, as a number
TimeField(i) ==
  Atoi(SubSeq(Split(Remove(pres.in, NL), SP)[i], 1, TimeDigits)).val

\* C24: field 0 of a Time line is the mtime and field 2 the atime, each read
\* from its first 10 characters
C24_TimeFields ==
  TimeParsed =>
    /\ fileInfos.Mtime = TimeField(1)
    /\ fileInfos.Atime = TimeField(3)

\* what ParseFileTime does: field 0 to Atime, field 2 to Mtime, each read from
\* its first 10 characters
TimeFieldsAsCoded ==
  TimeParsed =>
    /\ fileInfos.Atime = TimeField(1)
    /\ fileInfos.Mtime = TimeField(3)

\* the same through ParseResponse, for the line T1610000000 0 1610000001 0
TimeLineAsCoded ==
  (pres.op = "ParseResponse" /\ pres.err = Nil /\ Len(pres.stream) >= 27
     /\ SubSeq(pres.stream, 1, 27)
          = <<Time>> \o Stamp0 \o <<SP, "0", SP>> \o Stamp1 \o <<SP, "0", NL>>) =>
    /\ fileInfos.Atime = 1610000000
    /\ fileInfos.Mtime = 1610000001

\* ----------------------------------------------------------------- C25
\* the Time line T1610000000 0 1610000001 0 and the Create line C0644 2 t
GoodTimeLine ==
  <<Time>> \o Stamp0 \o <<SP, "0", SP>> \o Stamp1 \o <<SP, "0", NL>>

GoodCreateLine == <<Create, "0", "6", "4", "4", SP, "2", SP, "t", NL>>

StartsWith(s, pre) == Len(s) >= Len(pre) /\ SubSeq(s, 1, Len(pre)) = pre

\* ParseResponse returned for a header of a Time line and a Create line
TimeCreateHeader ==
  /\ pres.op = "ParseResponse"
  /\ ~pres.blocked
  /\ StartsWith(pres.stream, GoodTimeLine \o GoodCreateLine)

\* ParseResponse returned for a header that is a Create line alone
CreateHeader ==
  /\ pres.op = "ParseResponse"
  /\ ~pres.blocked
  /\ StartsWith(pres.stream, GoodCreateLine)

\* C25: after a Time line and a Create line the FileInfos has permissions, size
\* and filename of the Create line and mtime and atime of the Time line; after
\* a Create line alone both times are zero
C25_TimeThenCreate ==
  /\ TimeCreateHeader =>
       /\ pres.err = Nil
       /\ ~pres.isNil
       /\ fileInfos.Permissions = <<"0", "6", "4", "4">>
       /\ fileInfos.Size = 2
       /\ fileInfos.Filename = <<"t">>
       /\ fileInfos.Mtime = 1610000000
       /\ fileInfos.Atime = 1610000001
  /\ CreateHeader =>
       /\ pres.err = Nil
       /\ fileInfos.Permissions = <<"0", "6", "4", "4">>
       /\ fileInfos.Size = 2
       /\ fileInfos.Filename = <<"t">>
       /\ fileInfos.Mtime = 0
       /\ fileInfos.Atime = 0

\* what ParseResponse gives: size and filename of the Create line, the two
\* times of the Time line kept by the Create parse (exchanged, see C24), the
\* permissions with the tag of the Create line in front; times zero without
\* a Time line
TimeThenCreateAsCoded ==
  /\ TimeCreateHeader =>
       /\ pres.err = Nil
       /\ ~pres.isNil
       /\ fileInfos.Permissions = <<Create, "0", "6", "4", "4">>
       /\ fileInfos.Size = 2
       /\ fileInfos.Filename = <<"t">>
       /\ fileInfos.Atime = 1610000000
       /\ fileInfos.Mtime = 1610000001
  /\ CreateHeader =>
       /\ pres.err = Nil
       /\ fileInfos.Permissions = <<"0", "6", "4", "4">>
       /\ fileInfos.Size = 2
       /\ fileInfos.Filename = <<"t">>
       /\ fileInfos.Mtime = 0
       /\ fileInfos.Atime = 0

\* both headers were parsed
TimeCreateHeaderSeen == TimeCreateHeader /\ pres.err = Nil

CreateHeaderSeen == CreateHeader /\ pres.err = Nil

\* ----------------------------------------------------------------- C26
\* the space-separated fields of the message a parser was called with
MessageFields == Split(Remove(pres.in, NL), SP)

\* C26: ParseFileInfos succeeds only on a message of at least 3 fields; with
\* fewer it fails with the protocol error and the FileInfos is as it was; from
\* ParseResponse the same error comes back with no FileInfos at all
C26_FewFieldsRejected ==
  /\ pres.op = "ParseFileInfos" =>
       /\ Len(MessageFields) < 3 =>
            /\ pres.err = ChmodErr
            /\ fileInfos = pres.before
       /\ pres.err = Nil => Len(MessageFields) >= 3
  /\ (pres.op = "ParseResponse" /\ ~pres.blocked /\ LineStream
        /\ Head(pres.stream) = Create
        /\ Len(Split(Remove(FirstLine, NL), SP)) < 3) =>
       /\ pres.err = ChmodErr
       /\ pres.isNil

\* the two-field message "0644 2" was refused and the FileInfos assembled
\* so far kept
C26_Witness ==
  /\ pres.op = "ParseFileInfos"
  /\ pres.in = <<"0", "6", "4", "4", SP, "2", NL>>
  /\ pres.err = ChmodErr
  /\ pres.before.Filename = <<"o">>
  /\ fileInfos = pres.before

\* ----------------------------------------------------------------- C28
\* the value a field has after Update: the new one unless it is the zero value
Merged(old, new, zero) == IF new # zero THEN new ELSE old

\* C28: after fileInfos.Update(new) each of Filename, Permissions, Size, Atime,
\* Mtime is new's value if that is not empty / zero and its previous value
\* otherwise; Update(nil) changes nothing; the same Update once more changes
\* nothing
C28_UpdateMerges ==
  pres.op = "Update" =>
    /\ pres.new.nil => fileInfos = pres.before
    /\ ~pres.new.nil =>
         /\ fileInfos.Filename
              = Merged(pres.before.Filename, pres.new.v.Filename, <<>>)
         /\ fileInfos.Permissions
              = Merged(pres.before.Permissions, pres.new.v.Permissions, <<>>)
         /\ fileInfos.Size = Merged(pres.before.Size, pres.new.v.Size, 0)
         /\ fileInfos.Atime = Merged(pres.before.Atime, pres.new.v.Atime, 0)
         /\ fileInfos.Mtime = Merged(pres.before.Mtime, pres.new.v.Mtime, 0)
         /\ fileInfos.Message = pres.before.Message
    /\ Update(fileInfos, pres.new) = fileInfos

\* an Update that carried only an Atime replaced the Atime and kept the
\* filename, after an earlier Update
C28_Witness ==
  /\ pres.op = "Update"
  /\ pres.prev = "Update"
  /\ ~pres.new.nil
  /\ pres.new.v.Atime = 11
  /\ pres.new.v.Filename = <<>>
  /\ pres.before.Filename = <<"o">>
  /\ pres.before.Atime = 7
  /\ fileInfos.Filename = <<"o">>
  /\ fileInfos.Atime = 11

\* ----------------------------------------------------------------- C27
\* the permission string is octal and denotes at most 0777
ValidPermissions(p) == ParseInt(p, 8).ok /\ ParseInt(p, 8).val <= ModePerm

\* C27: an upload called with permissions above 0777 or not octal writes no
\* byte to the output stream and returns an error
C27_BadPermissionsNotWritten ==
  (mode = "upload" /\ mpc # "idle" /\ ~ValidPermissions(permissions)) =>
    /\ win = <<>>
    /\ mpc = "returned" => result # Nil

\* an upload with valid permissions wrote its header (the case the claim
\* leaves alone)
ValidPermissionsWritten ==
  /\ mode = "upload"
  /\ ValidPermissions(permissions)
  /\ win # <<>>

\* ----------------------------------------------------------------- C29
\* the upload data-plane task has terminated
UploadTaskEnded == mode = "upload" /\ tpc = "done"

\* the task ended on the failure of the given step, after n responses
EndedOn(op, n) ==
  /\ UploadTaskEnded
  /\ log # <<>>
  /\ log[Len(log)] = [op |-> op, ok |-> FALSE]
  /\ Len(acks) = n

\* C29: when the upload data-plane task has terminated, on success or on the
\* failure of any of its steps, the output stream has been closed
C29_ClosedOnEveryExit == UploadTaskEnded => wCloses >= 1

\* the task ended on a failed second response with the stream closed
C29_Witness == EndedOn("response", 2) /\ wCloses >= 1

\* the other ways the task ends
EndedOnHeader == EndedOn("header", 0)

EndedOnFirstResponse == EndedOn("response", 1)

EndedOnBody == EndedOn("body", 1)

EndedOnTerminator == EndedOn("terminator", 1)

EndedOnSuccess ==
  /\ UploadTaskEnded
  /\ Len(acks) = 2
  /\ log[Len(log)] = [op |-> "response", ok |-> TRUE]

\* ----------------------------------------------------------------- C30
\* the upload wrote its header line
HeaderWritten ==
  /\ mode = "upload"
  /\ log # <<>>
  /\ log[1] = [op |-> "header", ok |-> TRUE]

\* the first line on the output stream, its newline included
WrittenHeader == SubSeq(win, 1, IndexOf(win, NL))

\* the remote path names a file: something other than slashes
NamesFile(path) == TrimRightSlash(path) # <<>>

\* C30: the header line an upload writes is "C" + permissions + " " + decimal
\* size + " " + base name of the remote path + "\n"; the remote path with its
\* directory part is in the command the remote runs and, for a path that
\* names a file, no "/" is in the header
C30_HeaderLine ==
  /\ HeaderWritten =>
       /\ IndexOf(win, NL) # 0
       /\ WrittenHeader
            = <<"C">> \o permissions \o <<" ">> \o Itoa(size) \o <<" ">>
                \o PathBase(remotePath) \o <<"\n">>
       /\ NamesFile(remotePath) => ~Contains(WrittenHeader, <<"/">>)
       /\ (permissions = <<"0", "7", "7", "7">> /\ size = 9
             /\ PathBase(remotePath) = <<"t", "e", "s", "t", ".", "t", "x", "t">>) =>
            WrittenHeader
              = <<"C", "0", "7", "7", "7", " ", "9", " ", "t", "e", "s", "t", ".",
                  "t", "x", "t", "\n">>
  /\ (mode = "upload" /\ cpc = "done") => Contains(RunCommand, remotePath)

\* the header C0777 9 test.txt was written for the remote path /d/test.txt
C30_Witness ==
  /\ HeaderWritten
  /\ remotePath = <<"/", "d", "/", "t", "e", "s", "t", ".", "t", "x", "t">>
  /\ WrittenHeader
       = <<"C", "0", "7", "7", "7", " ", "9", " ", "t", "e", "s", "t", ".", "t",
           "x", "t", "\n">>
  /\ cpc = "done"

\* a header was written for a path with a trailing slash and for a bare name
TrailingSlashHeader ==
  /\ HeaderWritten
  /\ remotePath = <<"/", "d", "/", "e", "/">>
  /\ WrittenHeader = <<"C", "0", "6", "4", "4", " ", "1", " ", "e", "\n">>

\* ----------------------------------------------------------------- C31
\* every task that can send on errCh has signalled completion
SendersDone ==
  /\ wg = 0
  /\ tpc = "done"
  /\ mode = "upload" => cpc = "done"

\* C31: nothing is sent on errCh once it is closed and it stays closed (it is
\* closed at most once); it is closed only when every task that can send has
\* signalled completion, by the call that returns from wait with nil, and a
\* call that returns on the context's expiry or cancellation leaves it open
C31_NoSendAfterClose ==
  [][ /\ chClosed => (chClosed' /\ sent' = sent /\ errCh' = errCh)
      /\ (~chClosed /\ chClosed') => (SendersDone /\ hist'.wait = "nil")
      /\ (hist.wait = "pending" /\ hist'.wait = "ctx") => ~chClosed' ]_vars

\* the channel was closed after a task had sent an error on it
C31_Witness ==
  /\ chClosed
  /\ sent # <<>>
  /\ SendersDone
  /\ hist.wait = "nil"

\* a call returned on the deadline with a task still running and errCh open
DeadlineLeavesOpen ==
  /\ hist.wait = "ctx"
  /\ mpc = "returned"
  /\ ~chClosed
  /\ wg > 0

\* ----------------------------------------------------------------- C32
\* ParseResponse returned
ResponseParsed == pres.op = "ParseResponse" /\ ~pres.blocked

\* C32: ParseResponse takes no byte beyond the newline of the last line it
\* parses: no byte of the stream is left behind in its buffered reader,
\* however the stream is cut into reads
C32_NoReadAhead == ResponseParsed => pres.lost = <<>>

IsSuffix(t, s) ==
  Len(t) <= Len(s) /\ SubSeq(s, Len(s) - Len(t) + 1, Len(s)) = t

\* the bytes left in the buffered reader and the bytes still in the stream
\* are, in this order, the end of what the stream held
LostThenRestIsTail ==
  ResponseParsed => IsSuffix(pres.lost \o Flatten(reader.chunks), pres.stream)

\* a stream that delivers the status byte and then one line per read loses
\* nothing: the two body bytes are still in the stream
LineWiseKeepsBody ==
  /\ ResponseParsed
  /\ pres.err = Nil
  /\ pres.stream = GoodCreateLine \o <<"a", "b">>
  /\ pres.lost = <<>>
  /\ Flatten(reader.chunks) = <<"a", "b">>

\* ----------------------------------------------------------------- C33
\* C33: the Create line C0644 2 t gives the same permissions, size and
\* filename as first line and after a Time line, and the permissions
\* ParseResponse returns never start with the tag C
C33_CreateFieldsSame ==
  /\ (TimeCreateHeader \/ CreateHeader) =>
       /\ pres.err = Nil
       /\ fileInfos.Permissions = <<"0", "6", "4", "4">>
       /\ fileInfos.Size = 2
       /\ fileInfos.Filename = <<"t">>
  /\ (ResponseParsed /\ pres.err = Nil /\ fileInfos.Permissions # <<>>) =>
       Head(fileInfos.Permissions) # Create

\* size and filename are the same in both positions
SizeAndNameSame ==
  (TimeCreateHeader \/ CreateHeader) =>
    /\ pres.err = Nil
    /\ fileInfos.Size = 2
    /\ fileInfos.Filename = <<"t">>

\* the permissions start with the tag exactly when a Time line came first
TagKeptAfterTime ==
  (ResponseParsed /\ pres.err = Nil /\ fileInfos.Permissions # <<>>) =>
    (Head(fileInfos.Permissions) = Create <=> Head(pres.stream) = Time)

\* ----------------------------------------------------------------- C34
\* ParseResponse was called while the remote has sent a Time line and nothing
\* more, and holds the stream open until it reads an acknowledgment
RemoteAwaitsTimeAck ==
  /\ pres.op = "ParseResponse"
  /\ pres.stream = GoodTimeLine
  /\ reader.end = "open"

\* C34: the call is never blocked reading the Create line while the remote
\* waits for the acknowledgment of its Time line: when the call waits for
\* more of the stream, the Ack of the Time line has been written
C34_AckBeforeCreateRead ==
  (RemoteAwaitsTimeAck /\ pres.blocked) => writer.data # <<>>

\* what the call does there: it waits for the next line having written nothing
BlockedWithoutAck ==
  RemoteAwaitsTimeAck =>
    /\ pres.blocked
    /\ writer.data = <<>>
    /\ Flatten(reader.chunks) = <<>>

\* the Ack of the Time line is written when the stream ends behind the Time
\* line, and only then
AckOnlyAtEndOfStream ==
  (pres.op = "ParseResponse" /\ pres.stream # <<>>
     /\ Head(pres.stream) = Time) =>
    (writer.data # <<>> =>
       (reader.end = "eof" /\ pres.err = EOF /\ writer.data = AckMsg))

\* ----------------------------------------------------------------- C35
\* ParseFileTime was called, directly or by ParseResponse for a Time line
TimeLineGiven ==
  \/ pres.op = "ParseFileTime"
  \/ (ResponseParsed /\ LineStream /\ Head(pres.stream) = Time)

\* C35: parsing a Time line ends with the timestamps or with an error value,
\* never with the abort of an out-of-range slice
C35_TimeLineNeverAborts == TimeLineGiven => pres.err # Panic

\* a field 0 or field 2 of fewer than 10 characters is what aborts, and
\* nothing else does
AbortsOnShortField ==
  pres.op = "ParseFileTime" =>
    (pres.err = Panic <=>
       /\ Len(MessageFields) >= 3
       /\ \/ Len(MessageFields[1]) < TimeDigits
          \/ /\ Atoi(SubSeq(MessageFields[1], 1, TimeDigits)).ok
             /\ Len(MessageFields[3]) < TimeDigits)

\* fewer than 3 fields and non-numeric fields give error values, and the
\* FileInfos is left as it was whenever the call does not succeed
OtherBadTimeLinesError ==
  pres.op = "ParseFileTime" =>
    /\ Len(MessageFields) < 3 => pres.err = TimeErr
    /\ (Len(MessageFields) >= 3 /\ Len(MessageFields[1]) >= TimeDigits
          /\ ~Atoi(SubSeq(MessageFields[1], 1, TimeDigits)).ok) =>
         pres.err = ATimeErr
    /\ (pres.err = Nil /\ Len(MessageFields) >= 3) =>
         /\ Atoi(SubSeq(MessageFields[1], 1, TimeDigits)).ok
         /\ Atoi(SubSeq(MessageFields[3], 1, TimeDigits)).ok
    /\ pres.err # Nil => fileInfos = pres.before

\* a non-numeric field 2 was answered with the MTime error
MTimeErrorSeen == pres.op = "ParseFileTime" /\ pres.err = MTimeErr

\* ----------------------------------------------------------------- C36
\* what follows the second space of a line, its newline removed
AfterSizeField(line) ==
  LET q == Remove(line, NL)
      r == SubSeq(q, IndexOf(q, SP) + 1, Len(q))
  IN SubSeq(r, IndexOf(r, SP) + 1, Len(r))

\* C36: the filename of a parsed Create line is everything after the size
\* field, spaces included
C36_WholeFilename ==
  /\ (pres.op = "ParseFileInfos" /\ pres.err = Nil) =>
       fileInfos.Filename = AfterSizeField(pres.in)
  /\ (ResponseParsed /\ pres.err = Nil /\ LineStream
        /\ Head(pres.stream) = Create) =>
       fileInfos.Filename = AfterSizeField(FirstLine)

\* what ParseFileInfos returns: the first space-delimited word after the size
FilenameIsThirdField ==
  (pres.op = "ParseFileInfos" /\ pres.err = Nil) =>
    fileInfos.Filename = MessageFields[3]

\* a Create line with the filename "t e" was parsed
SpacedFilenameParsed ==
  /\ pres.op = "ParseFileInfos"
  /\ pres.err = Nil
  /\ AfterSizeField(pres.in) = <<"t", SP, "e">>
  /\ fileInfos.Filename = <<"t">>

\* ----------------------------------------------------------------- C37
\* the data-plane goroutine of the sudo variant gave up with "sudo failed"
SudoFailedSent == \E i \in 1..Len(sudoUp.sent) : sudoUp.sent[i] = SudoFailed

\* C37: the upload fails with "sudo failed" only when a password is configured
\* and writing it failed; with no password configured the header is written
\* and the exchange runs
C37_SudoFailedOnlyOnWriteError ==
  SudoFailedSent => (sudoUp.pw /\ sudoUp.wrote = "failed")

\* what the code does with no password configured: the data-plane goroutine
\* always ends with "sudo failed" and writes nothing
NoPasswordAlwaysFails ==
  (~sudoUp.pw /\ sudoUp.tpc \notin {"idle", "recv"}) =>
    /\ SudoFailedSent
    /\ sudoUp.w = <<>>
    /\ sudoUp.tpc \in {"exit", "done"}

\* with a password configured the claim's rule holds
PasswordCaseAsClaimed ==
  sudoUp.pw => (SudoFailedSent => sudoUp.wrote = "failed")

\* with a password written the header followed it
HeaderAfterPassword ==
  /\ sudoUp.pw
  /\ sudoUp.wrote = "ok"
  /\ sudoUp.w = PasswordLine \o HeaderLine

\* the call returned "sudo failed" on a client without a password
NoPasswordReturnsSudoFailed ==
  /\ ~sudoUp.pw
  /\ sudoUp.mpc = "returned"
  /\ sudoUp.result = SudoFailed

\* ----------------------------------------------------------------- C38
\* a statement of the download goroutine failed
StepFailed == timedDl.err # Nil

\* C38: after a failed step the goroutine is never held up in its deferred
\* sends, so that it reaches wg.Done, and the call returns the error of the
\* step, not a timeout, whatever the Timeout
C38_FailedStepReturned ==
  /\ timedDl.tpc \in {"deferred", "deferred2"} =>
       Len(timedDl.errCh) < TimedCap
  /\ (timedDl.mpc = "returned" /\ StepFailed) => timedDl.result = timedDl.err

\* what the code does after a failed step: the goroutine stays in its deferred
\* function with the channel full, wg.Done is not reached and errCh not closed
FailedStepHangs ==
  StepFailed =>
    /\ timedDl.tpc = "deferred"
    /\ timedDl.errCh = <<timedDl.err>>
    /\ timedDl.wg = 1
    /\ ~timedDl.chClosed

\* and the call returns only by the timeout, which exists only for Timeout > 0
FailedStepTimesOut ==
  (StepFailed /\ timedDl.mpc = "returned") =>
    /\ timedDl.Timeout > 0
    /\ timedDl.result = DownloadTimeout

\* with Timeout zero the call is still waiting after the failed copy, for good
WaitsForever ==
  /\ timedDl.Timeout = 0
  /\ timedDl.err = StepErr("copy")
  /\ timedDl.mpc = "wait"
  /\ timedDl.tpc = "deferred"

\* a download without a failing step returns nil
SuccessReturnsNil ==
  /\ timedDl.mpc = "returned"
  /\ timedDl.tpc = "done"
  /\ timedDl.result = Nil
  /\ timedDl.sent = <<Nil>>

\* ----------------------------------------------------------------- C39
\* the step gave the client its session: Connect dialed and NewSession worked
SessionGained == ~Session.set /\ Session'.set

\* C39: Connect establishes at most one connection per client: the dial that
\* gives the client its session is made on a client that holds no connection
C39_OneConnectionPerClient == [][SessionGained => ~Conn.set]_vars

\* the part of the rule the code keeps: a client that holds a session never
\* dials, and nothing but Close touches its Session and Conn
NoDialWhileSessionHeld ==
  [][Session.set =>
       /\ sshClient'.dials = sshClient.dials
       /\ Session'.set
       /\ Conn'.set = Conn.set]_vars

\* Session is set only with a connection behind it or by NewClientBySSH
SessionNeedsConnection ==
  Session.set => (Conn.set \/ sshClient.origin = "user")

\* a dial that worked followed by a failed NewSession: a.Conn is set, a.Session
\* is not, and the next Connect dials again
ConnWithoutSession ==
  /\ Conn.set
  /\ ~Session.set
  /\ sshClient.dials < MaxDials

\* after failed dials alone Session and Conn are unset and Close did nothing
ClosedAfterFailedDial ==
  /\ sshClient = [NoSSHClient EXCEPT !.dials = 1]
  /\ ~Session.set
  /\ ~Conn.set
  /\ closeCalls > 0

====
